---------------------------- MODULE Spec2Model ----------------------------
(***************************************************************************)
(* Model of admix-kit's chunked reducers (admix/data/_geno.py), of the     *)
(* block-wise association driver (admix/assoc/__init__.py), of impute_lanc *)
(* (admix/data/_utils.py), of read_rfmix (admix/io/_read.py) and of the    *)
(* lanc-impute command (admix/cli.py).                                     *)
(*                                                                         *)
(* One call of one operation is modelled at a time: Init chooses the       *)
(* operation and its arguments, the actions are the steps of that call     *)
(* (pre-flight checks, one loop iteration, the return).                    *)
(*                                                                         *)
(* Arrays are nested sequences indexed from 1: a (n_snp, n_indiv, 2)       *)
(* array a is a[m][i][h].  Floating point values are exact rationals       *)
(* <<numerator, denominator>> plus NaN and the two infinities; rounding    *)
(* is not modelled.                                                        *)
(***************************************************************************)
EXTENDS Integers, Sequences, FiniteSets, TLC

(***************************************************************************)
(* Bounds of the model.                                                    *)
(***************************************************************************)
MaxSnp == 3       \* markers per dataset: n_snp \in 1..MaxSnp
NIndiv == 2       \* individuals per dataset
MaxAnc == 3       \* n_anc \in 1..MaxAnc
MaxBlock == 4     \* n_block \in 1..MaxBlock
MaxCalls == 5     \* the count of _block_test calls saturates here

(***************************************************************************)
(* float64 arithmetic without rounding.                                    *)
(***************************************************************************)
Abs(x) == IF x < 0 THEN -x ELSE x

Sign(x) == IF x < 0 THEN -1 ELSE IF x > 0 THEN 1 ELSE 0

RECURSIVE GCD(_, _)
GCD(a, b) == IF b = 0 THEN a ELSE GCD(b, a % b)

NaN == <<0, 0>>

Rat(n, d) ==
    IF d = 0 THEN <<Sign(n), 0>>
    ELSE LET g == GCD(Abs(n), Abs(d))
         IN  <<(Sign(d) * n) \div g, Abs(d) \div g>>

Float(k) == <<k, 1>>

IsNaN(x) == x = NaN

IsFinite(x) == x[2] # 0

Add(x, y) ==
    IF IsNaN(x) \/ IsNaN(y) THEN NaN
    ELSE IF ~IsFinite(x) /\ ~IsFinite(y) THEN (IF x = y THEN x ELSE NaN)
    ELSE IF ~IsFinite(x) THEN x
    ELSE IF ~IsFinite(y) THEN y
    ELSE Rat(x[1] * y[2] + y[1] * x[2], x[2] * y[2])

Mul(x, y) ==
    IF IsNaN(x) \/ IsNaN(y) THEN NaN
    ELSE IF ~IsFinite(x) \/ ~IsFinite(y)
         THEN <<Sign(x[1]) * Sign(y[1]), 0>>
    ELSE Rat(x[1] * y[1], x[2] * y[2])

Div(x, y) ==
    IF IsNaN(x) \/ IsNaN(y) THEN NaN
    ELSE IF ~IsFinite(y) THEN (IF IsFinite(x) THEN Float(0) ELSE NaN)
    ELSE IF y[1] = 0 THEN <<Sign(x[1]), 0>>
    ELSE Mul(x, Rat(y[2], y[1]))

RECURSIVE SumSeq(_)
SumSeq(s) == IF s = <<>> THEN 0 ELSE Head(s) + SumSeq(Tail(s))

RECURSIVE SumFloat(_)
SumFloat(s) == IF s = <<>> THEN Float(0) ELSE Add(Head(s), SumFloat(Tail(s)))

RECURSIVE Concat(_)
Concat(ss) == IF ss = <<>> THEN <<>> ELSE Head(ss) \o Concat(Tail(ss))

(***************************************************************************)
(* Input datasets.  A dataset is a sequence of marker rows; a row gives    *)
(* each individual a pair of haplotype alleles (geno) and a pair of        *)
(* ancestry labels (lanc).  Rows are taken from a catalogue indexed by a   *)
(* key, so that neighbouring individuals and markers differ.               *)
(***************************************************************************)
LabelVals == <<0, 1, 2, -1>>

GenoCell(k) == <<k % 2, (k \div 2) % 2>>

LancCell(k, nl) == <<LabelVals[((k \div 4) % nl) + 1],
                     LabelVals[((k \div (4 * nl)) % nl) + 1]>>

GenoRow(k, nl) ==
    [i \in 1..NIndiv |-> GenoCell((k + 7 * (i - 1)) % (4 * nl * nl))]

LancRow(k, nl) ==
    [i \in 1..NIndiv |-> LancCell((k + 7 * (i - 1)) % (4 * nl * nl), nl)]

\* keys of the rows whose labels are all in {0, 1}
KeyList == <<7, 2, 12>>

KeyAt(j) == KeyList[((j - 1) % Len(KeyList)) + 1]

SmallKeys == {KeyList[j] : j \in DOMAIN KeyList}

SeqsUpTo(S, n) == UNION {[1..k -> S] : k \in 1..n}

\* datasets [geno, lanc] with every label in {0, 1}
LabelledData ==
    {[geno |-> [m \in DOMAIN ks |-> GenoRow(ks[m], 2)],
      lanc |-> [m \in DOMAIN ks |-> LancRow(ks[m], 2)]] :
        ks \in SeqsUpTo(SmallKeys, MaxSnp)}

\* one-marker datasets over every combination of alleles and of the labels
\* 0, 1, 2 and -1
AnyLabelData ==
    {[geno |-> <<GenoRow(k, 4)>>, lanc |-> <<LancRow(k, 4)>>] : k \in 0..63}

\* the chunk sizes of a dask array along the marker axis: positive, summing
\* to n
Chunkings(n) == {c \in SeqsUpTo(1..n, n) : SumSeq(c) = n}

(***************************************************************************)
(* numpy helpers                                                           *)
(***************************************************************************)
\* a.shape for a (n_snp, n_indiv, 2) array
Shape3(a) == <<Len(a), IF Len(a) = 0 THEN NIndiv ELSE Len(a[1]), 2>>

\* a[start:stop] along the first axis, Python's half-open 0-based slice
Slice(a, start, stop) ==
    SubSeq(a, start + 1, IF stop > Len(a) THEN Len(a) ELSE stop)

\* np.insert(np.cumsum(chunks), 0, 0)
ChunkIndices(c) ==
    [k \in 1..(Len(c) + 1) |-> SumSeq(SubSeq(c, 1, k - 1))]


(***************************************************************************)
(* State of one call.                                                      *)
(***************************************************************************)
VARIABLES
    op,              \* the operation being called
    geno, lanc,      \* genotype and local-ancestry arrays
    chunks,          \* geno.chunks[0]: the storage's chunk sizes over markers
    n_anc,           \* allele_per_anc / admix_grm / af_per_anc argument
    snp_prior_var,   \* admix_grm argument; <<>> stands for None
    mat, mat_dim, impute_geno, return_snp_var,   \* geno_mult_mat arguments
    method, n_block, cov,           \* marginal arguments; cov <<>> is None
    pheno, fast, family,            \* _block_test arguments
    dset, dset_ref,                 \* impute_lanc arguments
    df_snp, df_rfmix, df_indiv,     \* read_rfmix arguments
    geno_in_memory,  \* geno wraps an in-memory numpy array (da.from_array)
    kwargs_given,    \* _block_test: the caller passes logistic_kwargs
    pfile, ref_pfile, out,          \* lanc_impute arguments; out <<>> is None
    logistic_kwargs, \* the mapping the caller passes as logistic_kwargs
    default_kwargs,  \* the mapping built once by the default `dict()`
    fits,            \* the regressions fitted so far, in order
    fs,              \* the file system: path -> content
    opened,          \* the paths read so far
    pc,              \* position in the call: "start", "loop", "done"
    status,          \* "running", "returned" or "raised"
    result,          \* the value handed to the caller (<<>> until returned)
    reads,           \* chunks materialised so far (.compute() calls)
    visited,         \* the (start, stop) pairs the chunk loop has taken
    ret, snp_var,    \* geno_mult_mat accumulators
    gmm_chunk,       \* geno_mult_mat: geno_chunk as multiplied (after imputation)
    G1, G2, G12,     \* admix_grm accumulators
    af, lanc_nhaplo, \* af_per_anc accumulators
    var, var_size, test_vars,       \* marginal: variable matrix and recipe
    block_size, snp_start, pvalues, \* marginal: block loop
    n_calls,         \* marginal: _block_test calls made (saturating)
    ref_start, ref_stop, imputed_lanc,      \* impute_lanc locals
    rfmix_break_list, snp_pos, indiv_pos, values,   \* read_rfmix locals
    break_list, value_list

\* the arguments other than the genotype array
args == <<op, lanc, chunks, n_anc, snp_prior_var, mat, mat_dim,
          impute_geno, return_snp_var, method, n_block, cov,
          pheno, fast, family, dset, dset_ref, df_snp, df_rfmix, df_indiv,
          geno_in_memory, kwargs_given, pfile, ref_pfile, out>>

inputs == <<geno, args>>

fitVars == <<logistic_kwargs, default_kwargs, fits>>

cliVars == <<fs, opened>>

chunkVars == <<reads, visited>>

gmmVars == <<ret, snp_var, gmm_chunk>>

grmVars == <<G1, G2, G12>>

afVars == <<af, lanc_nhaplo>>

margVars == <<var, var_size, test_vars, block_size, snp_start, pvalues,
              n_calls>>

ilVars == <<ref_start, ref_stop, imputed_lanc>>

rfVars == <<rfmix_break_list, snp_pos, indiv_pos, values, break_list,
            value_list>>

vars == <<inputs, pc, status, result, chunkVars, gmmVars, grmVars, afVars,
          margVars, ilVars, rfVars, fitVars, cliVars>>

(***************************************************************************)
(* allele_per_anc                                                          *)
(***************************************************************************)
\* apa[...][mask] = hap[mask]: the masked update with the += lost
MaskedAssign(cur, hap) == Float(hap)

\* apa[:, :, i_anc][haplo_lanc == i_anc] += haplo_hap[haplo_lanc == i_anc],
\* at one entry selected by the mask
MaskedAdd(cur, hap) == Add(cur, Float(hap))

\* one pass of the inner loop body for (i_haplo, i_anc), both 0-based
HelperPass(apa, geno_chunk, lanc_chunk, i_haplo, i_anc) ==
    [m \in DOMAIN apa |->
        [i \in DOMAIN apa[m] |->
            [a \in DOMAIN apa[m][i] |->
                IF a = i_anc + 1 /\ lanc_chunk[m][i][i_haplo + 1] = i_anc
                THEN MaskedAdd(apa[m][i][a], geno_chunk[m][i][i_haplo + 1])
                ELSE apa[m][i][a]]]]

\* the two nested loops, k enumerating (i_haplo, i_anc) in loop order
RECURSIVE HelperLoop(_, _, _, _, _)
HelperLoop(apa, geno_chunk, lanc_chunk, anc, k) ==
    IF k >= 2 * anc THEN apa
    ELSE HelperLoop(
            HelperPass(apa, geno_chunk, lanc_chunk, k \div anc, k % anc),
            geno_chunk, lanc_chunk, anc, k + 1)

helper(geno_chunk, lanc_chunk, anc) ==
    HelperLoop(
        [m \in DOMAIN geno_chunk |->
            [i \in DOMAIN geno_chunk[m] |-> [a \in 1..anc |-> Float(0)]]],
        geno_chunk, lanc_chunk, anc, 0)

\* the assertions of allele_per_anc the arrays can fail
AllelePerAncPre(g, l) == Shape3(g) = Shape3(l)

\* da.map_blocks(helper, geno, lanc) computed block by block
MapBlocks(g, l, c, anc) ==
    LET idx == ChunkIndices(c)
    IN  Concat([k \in 1..Len(c) |->
                    helper(Slice(g, idx[k], idx[k + 1]),
                           Slice(l, idx[k], idx[k + 1]), anc)])

AllelePerAnc ==
    /\ op = "allele_per_anc" /\ pc = "start"
    /\ pc' = "done"
    /\ IF AllelePerAncPre(geno, lanc)
       THEN /\ status' = "returned"
            /\ result' = MapBlocks(geno, lanc, chunks, n_anc)
            /\ reads' = Len(chunks)
       ELSE /\ status' = "raised"
            /\ UNCHANGED <<result, reads>>
    /\ UNCHANGED <<inputs, fitVars, cliVars>>
    /\ UNCHANGED <<ilVars, rfVars, visited, gmmVars, grmVars, afVars, margVars>>

(***************************************************************************)
(* Chunk loop shared by the reducers                                       *)
(***************************************************************************)
\* np.cumsum(chunks) alone: the leading 0 is not inserted
ChunkIndicesNoZero(c) == [k \in 1..Len(c) |-> SumSeq(SubSeq(c, 1, k))]

\* indices = np.insert(np.cumsum(chunks), 0, 0)
indices(c) == ChunkIndices(c)

\* the exception caught and the loop carried on
Swallow(position) == position

\* an exception leaving .compute() is not caught by the loop: the call is
\* left at once
Propagate(position) == "done"

\* range(len(indices) - 1) still has an iteration to run
MoreChunks == Len(visited) < Len(indices(chunks)) - 1

\* start, stop = indices[i], indices[i + 1] for the iteration about to run
ChunkStart == indices(chunks)[Len(visited) + 1]

ChunkStop == indices(chunks)[Len(visited) + 2]

(***************************************************************************)
(* admix_grm                                                               *)
(***************************************************************************)
\* np.sqrt on the prior variances the model supplies (perfect squares)
Sqrt(v) == CHOOSE r \in 0..v : r * r = v

\* np.dot(a.T, b) for a, b of shape (n_chunk, n_indiv)
DotT(a, b) ==
    [i \in 1..NIndiv |->
        [j \in 1..NIndiv |->
            SumFloat([m \in DOMAIN a |-> Mul(a[m][i], b[m][j])])]]

MatAdd(A, B) == [i \in DOMAIN A |-> [j \in DOMAIN A[i] |-> Add(A[i][j], B[i][j])]]

MatDiv(A, x) == [i \in DOMAIN A |-> [j \in DOMAIN A[i] |-> Div(A[i][j], x)]]

Zeros(n, k) == [i \in 1..n |-> [j \in 1..k |-> Float(0)]]

\* the assertions without the one on n_anc
AdmixGrmPreAnyAnc == Shape3(geno) = Shape3(lanc) /\ AllelePerAncPre(geno, lanc)

\* the assertions at the head of admix_grm, and those of the allele_per_anc
\* call it makes
AdmixGrmPre == n_anc = 2 /\ Shape3(geno) = Shape3(lanc) /\ AllelePerAncPre(geno, lanc)

\* snp_prior_var after `if snp_prior_var is None`
PriorVar == IF snp_prior_var = <<>> THEN [m \in 1..Len(geno) |-> 1] ELSE snp_prior_var

snp_prior_var_sum == Float(SumSeq(PriorVar))

\* apa[start:stop].compute() followed by the in-place scaling by
\* np.sqrt(snp_prior_var[start:stop])
ScaledApaChunk(start, stop) ==
    LET apa_chunk == helper(Slice(geno, start, stop), Slice(lanc, start, stop), n_anc)
    IN  [m \in DOMAIN apa_chunk |->
            [i \in DOMAIN apa_chunk[m] |->
                [a \in DOMAIN apa_chunk[m][i] |->
                    Mul(apa_chunk[m][i][a], Float(Sqrt(PriorVar[start + m])))]]]

\* apa_chunk[:, :, k] for 1-based channel k
Channel(apa_chunk, k) ==
    [m \in DOMAIN apa_chunk |-> [i \in DOMAIN apa_chunk[m] |-> apa_chunk[m][i][k]]]

\* G += np.dot(a.T, b) / snp_prior_var_sum
Accumulate(G, a, b) == MatAdd(G, MatDiv(DotT(a, b), snp_prior_var_sum))

\* the cross term with its operands exchanged
CrossSwapped(G, a1, a2) == Accumulate(G, a2, a1)

\* G12 += np.dot(a1_chunk.T, a2_chunk) / snp_prior_var_sum
AccumulateCross(G, a1, a2) == Accumulate(G, a1, a2)

AdmixGrmStart ==
    /\ op = "admix_grm" /\ pc = "start"
    /\ IF AdmixGrmPre
       THEN /\ pc' = "loop"
            /\ G1' = Zeros(NIndiv, NIndiv)
            /\ G2' = Zeros(NIndiv, NIndiv)
            /\ G12' = Zeros(NIndiv, NIndiv)
            /\ UNCHANGED status
       ELSE /\ pc' = "done"
            /\ status' = "raised"
            /\ UNCHANGED grmVars
    /\ UNCHANGED <<inputs, fitVars, cliVars>>
    /\ UNCHANGED <<ilVars, rfVars, result, chunkVars, gmmVars, afVars, margVars>>

AdmixGrmChunk ==
    /\ op = "admix_grm" /\ pc = "loop" /\ MoreChunks
    /\ LET start == ChunkStart
           stop == ChunkStop
           apa_chunk == ScaledApaChunk(start, stop)
           a1_chunk == Channel(apa_chunk, 1)
           a2_chunk == Channel(apa_chunk, 2)
       IN  /\ visited' = Append(visited, <<start, stop>>)
           /\ reads' = reads + 1
           /\ G1' = Accumulate(G1, a1_chunk, a1_chunk)
           /\ G2' = Accumulate(G2, a2_chunk, a2_chunk)
           /\ G12' = AccumulateCross(G12, a1_chunk, a2_chunk)
    /\ UNCHANGED <<inputs, fitVars, cliVars>>
    /\ UNCHANGED <<ilVars, rfVars, pc, status, result, gmmVars, afVars, margVars>>

\* a loop iteration whose apa[start:stop, :, :].compute() raises
AdmixGrmChunkRaises ==
    /\ op = "admix_grm" /\ pc = "loop" /\ MoreChunks
    /\ pc' = Propagate(pc)
    /\ status' = "raised"
    /\ UNCHANGED <<inputs, fitVars, cliVars>>
    /\ UNCHANGED <<ilVars, rfVars, result, chunkVars, gmmVars, grmVars, afVars, margVars>>

AdmixGrmReturn ==
    /\ op = "admix_grm" /\ pc = "loop" /\ ~MoreChunks
    /\ pc' = "done"
    /\ status' = "returned"
    /\ result' = <<G1, G2, G12>>
    /\ UNCHANGED <<inputs, fitVars, cliVars>>
    /\ UNCHANGED <<ilVars, rfVars, chunkVars, gmmVars, grmVars, afVars, margVars>>

(***************************************************************************)
(* af_per_anc                                                              *)
(***************************************************************************)
AfPerAncPre == Shape3(geno) = Shape3(lanc)

\* np.sum(lanc_mask, axis=(1, 2)) for one marker row, lanc_mask = row == anc_i
MaskCount(lanc_row, anc_i) ==
    SumSeq([i \in DOMAIN lanc_row |->
        SumSeq([h \in 1..2 |-> IF lanc_row[i][h] = anc_i THEN 1 ELSE 0])])

\* geno_chunk.sum(axis=(1, 2)) for one marker row, without the mask
MaskedSumUnmasked(geno_row, lanc_row, anc_i) ==
    SumSeq([i \in DOMAIN geno_row |-> SumSeq([h \in 1..2 |-> geno_row[i][h]])])

\* np.ma.masked_where(np.logical_not(lanc_mask), geno_chunk).sum(axis=(1, 2)).data
\* for one marker row: masked entries contribute nothing
MaskedSum(geno_row, lanc_row, anc_i) ==
    SumSeq([i \in DOMAIN geno_row |->
        SumSeq([h \in 1..2 |-> IF lanc_row[i][h] = anc_i THEN geno_row[i][h] ELSE 0])])

\* the rows start..stop-1 of a (n_snp, n_anc) table replaced by those of rows
SetRows(table, start, rows) ==
    [m \in DOMAIN table |->
        IF m > start /\ m <= start + Len(rows) THEN rows[m - start] ELSE table[m]]

AfPerAncStart ==
    /\ op = "af_per_anc" /\ pc = "start"
    /\ IF AfPerAncPre
       THEN /\ pc' = "loop"
            /\ af' = Zeros(Len(geno), n_anc)
            /\ lanc_nhaplo' = Zeros(Len(geno), n_anc)
            /\ UNCHANGED status
       ELSE /\ pc' = "done"
            /\ status' = "raised"
            /\ UNCHANGED afVars
    /\ UNCHANGED <<inputs, fitVars, cliVars>>
    /\ UNCHANGED <<ilVars, rfVars, result, chunkVars, gmmVars, grmVars, margVars>>

AfPerAncChunk ==
    /\ op = "af_per_anc" /\ pc = "loop" /\ MoreChunks
    /\ LET start == ChunkStart
           stop == ChunkStop
           geno_chunk == Slice(geno, start, stop)
           lanc_chunk == Slice(lanc, start, stop)
           nhaplo == [m \in DOMAIN lanc_chunk |->
                        [a \in 1..n_anc |-> Float(MaskCount(lanc_chunk[m], a - 1))]]
           freq == [m \in DOMAIN geno_chunk |->
                        [a \in 1..n_anc |->
                            Div(Float(MaskedSum(geno_chunk[m], lanc_chunk[m], a - 1)),
                                nhaplo[m][a])]]
       IN  /\ visited' = Append(visited, <<start, stop>>)
           /\ reads' = reads + 2
           /\ lanc_nhaplo' = SetRows(lanc_nhaplo, start, nhaplo)
           /\ af' = SetRows(af, start, freq)
    /\ UNCHANGED <<inputs, fitVars, cliVars>>
    /\ UNCHANGED <<ilVars, rfVars, pc, status, result, gmmVars, grmVars, margVars>>

\* return_nhaplo=True: both tables are handed back
AfPerAncReturn ==
    /\ op = "af_per_anc" /\ pc = "loop" /\ ~MoreChunks
    /\ pc' = "done"
    /\ status' = "returned"
    /\ result' = <<af, lanc_nhaplo>>
    /\ UNCHANGED <<inputs, fitVars, cliVars>>
    /\ UNCHANGED <<ilVars, rfVars, chunkVars, gmmVars, grmVars, afVars, margVars>>

(***************************************************************************)
(* impute_with_mean and geno_mult_mat                                      *)
(***************************************************************************)
\* np.nanmean of one row: NaN when every entry is NaN
NanMean(row) ==
    LET present == [i \in DOMAIN row |-> IF IsNaN(row[i]) THEN Float(0) ELSE row[i]]
        count == SumSeq([i \in DOMAIN row |-> IF IsNaN(row[i]) THEN 0 ELSE 1])
    IN  Div(SumFloat(present), Float(count))

\* impute_with_mean(mat, inplace=True, axis=0): the mean taken over the
\* markers of the chunk, per individual
impute_with_mean_axis0(chunk) ==
    [m \in DOMAIN chunk |->
        [i \in DOMAIN chunk[m] |->
            IF IsNaN(chunk[m][i])
            THEN NanMean([k \in DOMAIN chunk |-> chunk[k][i]])
            ELSE chunk[m][i]]]

\* impute_with_mean(mat, inplace=True, axis=1)
impute_with_mean(chunk) ==
    [m \in DOMAIN chunk |->
        [i \in DOMAIN chunk[m] |->
            IF IsNaN(chunk[m][i]) THEN NanMean(chunk[m]) ELSE chunk[m][i]]]

\* a.T for a of shape (n, NIndiv)
Transpose(a) == [i \in 1..NIndiv |-> [m \in DOMAIN a |-> a[m][i]]]

\* np.dot(A, B) is defined when the inner dimensions agree
Conformable(A, B) == \A r \in DOMAIN A : Len(A[r]) = Len(B)

Dot(A, B) ==
    [r \in DOMAIN A |->
        [c \in DOMAIN B[1] |->
            SumFloat([k \in DOMAIN B |-> Mul(A[r][k], B[k][c])])]]

\* np.var(x) of a sequence
Var(xs) ==
    LET n == Float(Len(xs))
        mean == Div(SumFloat(xs), n)
        dev == [k \in DOMAIN xs |-> Add(xs[k], Mul(Float(-1), mean))]
    IN  Div(SumFloat([k \in DOMAIN xs |-> Mul(dev[k], dev[k])]), n)

\* np.var(geno_chunk, axis=0): one value per column (individual)
VarAxis0(chunk) == [i \in 1..NIndiv |-> Var([m \in DOMAIN chunk |-> chunk[m][i]])]

\* snp_var[start:stop] = vals broadcasts when the lengths agree or vals has
\* one entry
Broadcasts(vals, n) == Len(vals) = n \/ Len(vals) = 1

\* n_snp, n_indiv = geno.shape
ExpectedRows == IF mat_dim = "indiv" THEN NIndiv ELSE Len(geno)

\* no check of mat's row count at all
GenoMultMatNoCheck == mat_dim \in {"snp", "indiv"}

\* the assertions of geno_mult_mat, all ahead of the chunk loop
GenoMultMatPre == mat_dim \in {"snp", "indiv"} /\ Len(mat) = ExpectedRows

\* ret = np.dot(...): the running sum overwritten by the chunk's product
RetAssign(acc, prod) == prod

\* ret += np.dot(geno_chunk.T, mat[start:stop, :])
RetAdd(acc, prod) == MatAdd(acc, prod)

\* what geno holds once impute_with_mean(geno_chunk, inplace=True) has run on
\* the chunk of rows start..: .compute() hands out the block itself when geno
\* wraps an in-memory array (shares), and a fresh array otherwise
StorageAfter(storage, start, chunk, shares) ==
    IF shares THEN SetRows(storage, start, chunk) ELSE storage

GenoMultMatStart ==
    /\ op = "geno_mult_mat" /\ pc = "start"
    /\ IF GenoMultMatPre
       THEN /\ pc' = "loop"
            /\ ret' = IF mat_dim = "indiv"
                      THEN Zeros(Len(geno), Len(mat[1]))
                      ELSE Zeros(NIndiv, Len(mat[1]))
            /\ UNCHANGED status
       ELSE /\ pc' = "done"
            /\ status' = "raised"
            /\ UNCHANGED ret
    /\ snp_var' = [m \in 1..Len(geno) |-> Float(0)]
    /\ UNCHANGED gmm_chunk
    /\ UNCHANGED <<inputs, fitVars, cliVars>>
    /\ UNCHANGED <<ilVars, rfVars, result, chunkVars, grmVars, afVars, margVars>>

GenoMultMatChunk ==
    /\ op = "geno_mult_mat" /\ pc = "loop" /\ MoreChunks
    /\ LET start == ChunkStart
           stop == ChunkStop
           raw == Slice(geno, start, stop)
           chunk == IF impute_geno THEN impute_with_mean(raw) ELSE raw
           left == IF mat_dim = "indiv" THEN chunk ELSE Transpose(chunk)
           right == IF mat_dim = "indiv" THEN mat ELSE Slice(mat, start, stop)
           variance == VarAxis0(chunk)
       IN  /\ visited' = Append(visited, <<start, stop>>)
           /\ reads' = reads + 1
           /\ gmm_chunk' = chunk
           /\ geno' = StorageAfter(geno, start, chunk, geno_in_memory)
           /\ IF ~Conformable(left, right)
              THEN \* np.dot raises ValueError
                   /\ pc' = "done" /\ status' = "raised"
                   /\ UNCHANGED <<ret, snp_var>>
              ELSE /\ ret' = IF mat_dim = "indiv"
                             THEN SetRows(ret, start, Dot(left, right))
                             ELSE RetAdd(ret, Dot(left, right))
                   /\ IF ~return_snp_var
                      THEN UNCHANGED <<pc, status, snp_var>>
                      ELSE IF Broadcasts(variance, stop - start)
                      THEN /\ snp_var' =
                                [m \in DOMAIN snp_var |->
                                    IF m > start /\ m <= stop
                                    THEN variance[IF Len(variance) = 1 THEN 1 ELSE m - start]
                                    ELSE snp_var[m]]
                           /\ UNCHANGED <<pc, status>>
                      ELSE \* the assignment raises ValueError
                           /\ pc' = "done" /\ status' = "raised"
                           /\ UNCHANGED snp_var
    /\ UNCHANGED <<args, fitVars, cliVars>>
    /\ UNCHANGED <<ilVars, rfVars, result, grmVars, afVars, margVars>>

\* a loop iteration whose geno[start:stop, :].compute() raises
GenoMultMatChunkRaises ==
    /\ op = "geno_mult_mat" /\ pc = "loop" /\ MoreChunks
    /\ pc' = Propagate(pc)
    /\ status' = "raised"
    /\ UNCHANGED <<inputs, fitVars, cliVars>>
    /\ UNCHANGED <<ilVars, rfVars, result, chunkVars, gmmVars, grmVars, afVars, margVars>>

GenoMultMatReturn ==
    /\ op = "geno_mult_mat" /\ pc = "loop" /\ ~MoreChunks
    /\ pc' = "done"
    /\ status' = "returned"
    /\ result' = IF return_snp_var THEN <<ret, snp_var>> ELSE <<ret>>
    /\ UNCHANGED <<inputs, fitVars, cliVars>>
    /\ UNCHANGED <<ilVars, rfVars, chunkVars, gmmVars, grmVars, afVars, margVars>>

(***************************************************************************)
(* _block_test and marginal                                                *)
(***************************************************************************)
\* Matrices of shape (n_indiv, k) are kept as their sequence of k columns,
\* so that var[:, a:b] is the columns a+1..b.

\* the p-value the regression backend reports for one design: the backend is
\* outside the repository, its answer is a function of what it is given
PValue(design, tested) == [design |-> design, test_vars |-> tested]

\* the assertions without the one on var.shape[1] % var_size
BlockTestPreNoDivisor(v, c, size, tested) ==
    /\ \A k \in DOMAIN c : Len(c[k]) = NIndiv
    /\ size > 0
    /\ \A k \in DOMAIN tested : tested[k] < size

\* the assertions at the head of _block_test
BlockTestPre(v, c, size, tested) ==
    /\ \A k \in DOMAIN c : Len(c[k]) = NIndiv
    /\ size > 0
    /\ Len(v) % size = 0
    /\ \A k \in DOMAIN tested : tested[k] < size

\* one p-value per group of var_size columns: design[:, 0:var_size] is the
\* group, the remaining columns are cov
_block_test(v, c, size, tested) ==
    [k \in 1..(Len(v) \div size) |->
        PValue(SubSeq(v, (k - 1) * size + 1, k * size) \o c, tested)]

\* positional parameters of allele_per_anc that have no default
AllelePerAncRequired == 3

\* arguments marginal passes to allele_per_anc
MarginalPasses == 2

\* geno.sum(axis=2).swapaxes(0, 1) and lanc.sum(axis=2).swapaxes(0, 1): the
\* column of marker m
HapSum(a, m) == [i \in 1..NIndiv |-> a[m][i][1] + a[m][i][2]]

\* apa.swapaxes(0, 1)[:, m, k]
ApaColumn(apa, m, k) == [i \in 1..NIndiv |-> apa[m][i][k]]

\* var_size and test_vars of each method
Recipe(meth) ==
    CASE meth = "ATT" -> [var_size |-> 1, test_vars |-> <<0>>]
      [] meth = "TRACTOR" -> [var_size |-> 3, test_vars |-> <<0, 1>>]
      [] meth = "SNP1" -> [var_size |-> 2, test_vars |-> <<0>>]
      [] meth = "ASE" -> [var_size |-> 2, test_vars |-> <<0, 1>>]
      [] meth = "ADM" -> [var_size |-> 1, test_vars |-> <<0>>]

\* the columns the method writes for marker m (apa is used by TRACTOR and
\* ASE only)
MarkerColumns(meth, apa, m) ==
    CASE meth = "ATT" -> <<HapSum(geno, m)>>
      [] meth = "TRACTOR" ->
            <<ApaColumn(apa, m, 1), ApaColumn(apa, m, 2), HapSum(lanc, m)>>
      [] meth = "SNP1" -> <<HapSum(geno, m), HapSum(lanc, m)>>
      [] meth = "ASE" -> <<ApaColumn(apa, m, 1), ApaColumn(apa, m, 2)>>
      [] meth = "ADM" -> <<HapSum(lanc, m)>>

VarMatrix(meth, apa) ==
    Concat([m \in 1..Len(geno) |-> MarkerColumns(meth, apa, m)])

\* cov after the intercept column is prepended
WithIntercept(c) == <<[i \in 1..NIndiv |-> 1]>> \o c

\* the assertions of marginal ahead of the variable construction
MarginalPre ==
    /\ method \in {"ATT", "TRACTOR", "ADM", "SNP1", "ASE"}
    /\ Shape3(geno) = Shape3(lanc)
    /\ \A k \in DOMAIN cov : Len(cov[k]) = NIndiv

\* admix.data.allele_per_anc(geno, lanc): the call binds its arguments
CallBinds == MarginalPasses >= AllelePerAncRequired

NeedsApa(meth) == meth \in {"TRACTOR", "ASE"}

\* block_size = n_snp // n_block
BlockSize == Len(geno) \div n_block

Min(a, b) == IF a < b THEN a ELSE b

\* the value of the allele_per_anc call, for the methods that make it
MarginalApa ==
    IF NeedsApa(method) THEN MapBlocks(geno, lanc, chunks, n_anc) ELSE <<>>

\* everything ahead of the block loop succeeds
MarginalBuilds == MarginalPre /\ (NeedsApa(method) => CallBinds)

MarginalStart ==
    /\ op = "marginal" /\ pc = "start"
    /\ IF MarginalBuilds
       THEN /\ var' = VarMatrix(method, MarginalApa)
            /\ var_size' = Recipe(method).var_size
            /\ test_vars' = Recipe(method).test_vars
            /\ block_size' = BlockSize
            /\ pc' = "loop"
            /\ UNCHANGED status
       ELSE /\ pc' = "done"
            /\ status' = "raised"
            /\ UNCHANGED <<var, var_size, test_vars, block_size>>
    /\ UNCHANGED <<inputs, fitVars, cliVars>>
    /\ UNCHANGED <<ilVars, rfVars, result, chunkVars, gmmVars, grmVars, afVars,
                   snp_start, pvalues, n_calls>>

MarginalBlock ==
    /\ op = "marginal" /\ pc = "loop" /\ snp_start < Len(geno)
    /\ LET snp_stop == Min(snp_start + block_size, Len(geno))
           block == SubSeq(var, snp_start * var_size + 1, snp_stop * var_size)
           c == WithIntercept(cov)
       IN  IF BlockTestPre(block, c, var_size, test_vars)
           THEN /\ pvalues' = IF n_calls < MaxCalls
                              THEN Append(pvalues,
                                          _block_test(block, c, var_size, test_vars))
                              ELSE pvalues
                /\ n_calls' = Min(n_calls + 1, MaxCalls)
                /\ snp_start' = snp_start + block_size
                /\ UNCHANGED <<pc, status>>
           ELSE /\ pc' = "done"
                /\ status' = "raised"
                /\ UNCHANGED <<pvalues, n_calls, snp_start>>
    /\ UNCHANGED <<inputs, fitVars, cliVars>>
    /\ UNCHANGED <<ilVars, rfVars, result, chunkVars, gmmVars, grmVars, afVars,
                   var, var_size, test_vars, block_size>>

\* return np.concatenate(pvalues)
MarginalReturn ==
    /\ op = "marginal" /\ pc = "loop" /\ ~(snp_start < Len(geno))
    /\ pc' = "done"
    /\ status' = "returned"
    /\ result' = Concat(pvalues)
    /\ UNCHANGED <<inputs, fitVars, cliVars>>
    /\ UNCHANGED <<ilVars, rfVars, chunkVars, gmmVars, grmVars, afVars, margVars>>

(***************************************************************************)
(* _block_test called on its own                                           *)
(***************************************************************************)
\* pheno is kept as its number of dimensions and its first extent; cov is a
\* sequence of columns, so n_cov = cov.shape[1] is Len(cov).

\* assert pheno.ndim == 1 and assert pheno.shape[0] == n_indiv
PhenoPre == pheno.ndim = 1 /\ pheno.rows = NIndiv

\* the if / elif / else over family: an unknown family raises ValueError
\* (fast) or NotImplementedError before any model is fitted
FamilyKnown == family \in {"linear", "logistic"}

\* n_var = var.shape[1] // var_size
n_var == Len(var) \div var_size

\* a[t] for a of length n: a negative t counts from the end
Item(t, n) == IF t < 0 THEN t + n ELSE t

\* [i for i in range(var_size) if i in test_vars]: the genetic columns the
\* reduced model leaves out
Dropped(size, tested) ==
    LET F[i \in 0..size] ==
            IF i = size THEN <<>>
            ELSE (IF \E k \in DOMAIN tested : tested[k] = i THEN <<i>> ELSE <<>>)
                 \o F[i + 1]
    IN  F[0]

\* reduced_index: the genetic columns outside test_vars, without the
\* covariate columns
ReducedIndexNoCov(size, tested, n_cov) ==
    LET F[i \in 0..size] ==
            IF i = size THEN <<>>
            ELSE (IF \E k \in DOMAIN tested : tested[k] = i THEN <<>> ELSE <<i>>)
                 \o F[i + 1]
    IN  F[0]

\* reduced_index = [i for i in range(var_size) if i not in test_vars]
\* followed by np.arange(var_size, var_size + n_cov)
ReducedIndex(size, tested, n_cov) ==
    LET F[i \in 0..size] ==
            IF i = size THEN <<>>
            ELSE (IF \E k \in DOMAIN tested : tested[k] = i THEN <<>> ELSE <<i>>)
                 \o F[i + 1]
    IN  F[0] \o [k \in 1..n_cov |-> size + k - 1]

\* reg_method(pheno, design[:, columns]) for marker i: one fitted regression
Fit(i, kind, columns) == [marker |-> i, model |-> kind, columns |-> columns]

\* the mapping the parameter logistic_kwargs is bound to: the caller's, or
\* the one object the default `dict()` made when the function was defined
BoundKwargs == IF kwargs_given THEN logistic_kwargs ELSE default_kwargs

\* if "max_iter" not in logistic_kwargs: logistic_kwargs["max_iter"] = 100
\* if "tol" not in logistic_kwargs: logistic_kwargs["tol"] = 1e-6
\* a mapping is kept as its set of (key, value) pairs
WithDefaults(mapping) ==
    LET keys == {e[1] : e \in mapping}
    IN  mapping
            \cup (IF "max_iter" \in keys THEN {} ELSE {<<"max_iter", Float(100)>>})
            \cup (IF "tol" \in keys THEN {} ELSE {<<"tol", Rat(1, 1000000)>>})

\* design[:, 0:var_size] = var[:, i * var_size : (i + 1) * var_size], the
\* remaining columns being cov
Design(i) == SubSeq(var, i * var_size + 1, (i + 1) * var_size) \o cov

\* statsmodels path, len(test_vars) == 1: model.pvalues[test_vars.item()]
CoefPValue(i) ==
    [of |-> PValue(Design(i), <<Item(test_vars[1], var_size + Len(cov))>>),
     dist |-> "coef", df |-> 0, df2 |-> 0]

\* statsmodels path, otherwise: stats.chi2.sf(-2 * (model_reduced.llf -
\* model.llf), model.df_model - model_reduced.df_model); the two models
\* differ by the columns of Dropped
LrtPValue(i) ==
    [of |-> PValue(Design(i), Dropped(var_size, test_vars)),
     dist |-> "chi2", df |-> Len(Dropped(var_size, test_vars)), df2 |-> 0]

\* stats.f.sf(f_stats, len(test_vars), n_indiv - n_cov - var_size)
FastLinearPValue(i) ==
    [of |-> PValue(Design(i), test_vars),
     dist |-> "f", df |-> Len(test_vars), df2 |-> NIndiv - Len(cov) - var_size]

\* stats.chi2.sf(2 * lrt_diff, var_size)
FastLogisticPValue(i) ==
    [of |-> PValue(Design(i), test_vars),
     dist |-> "chi2", df |-> var_size, df2 |-> 0]

BlockTestStart ==
    /\ op = "block_test" /\ pc = "start"
    /\ IF BlockTestPre(var, cov, var_size, test_vars) /\ PhenoPre /\ FamilyKnown
       THEN pc' = "fit" /\ UNCHANGED status
       ELSE pc' = "done" /\ status' = "raised"
    /\ UNCHANGED <<inputs, fitVars, cliVars>>
    /\ UNCHANGED <<ilVars, rfVars, result, chunkVars, gmmVars, grmVars,
                   afVars, margVars>>

\* the fast path: one backend call for the whole block
BlockTestFast ==
    /\ op = "block_test" /\ pc = "fit" /\ fast
    /\ pvalues' = [k \in 1..n_var |->
                       IF family = "linear" THEN FastLinearPValue(k - 1)
                                            ELSE FastLogisticPValue(k - 1)]
    /\ result' = pvalues'
    /\ pc' = "done"
    /\ status' = "returned"
    /\ IF family # "logistic" THEN UNCHANGED <<logistic_kwargs, default_kwargs>>
       ELSE IF kwargs_given
       THEN /\ logistic_kwargs' = WithDefaults(BoundKwargs)
            /\ UNCHANGED default_kwargs
       ELSE /\ default_kwargs' = WithDefaults(BoundKwargs)
            /\ UNCHANGED logistic_kwargs
    /\ UNCHANGED <<inputs, fits, cliVars>>
    /\ UNCHANGED <<ilVars, rfVars, chunkVars, gmmVars, grmVars, afVars,
                   var, var_size, test_vars, block_size, snp_start, n_calls>>

\* one iteration of the statsmodels loop: for i in range(n_var)
BlockTestFit ==
    /\ op = "block_test" /\ pc = "fit" /\ ~fast /\ Len(pvalues) < n_var
    /\ LET i == Len(pvalues)
           full == Fit(i, "full", [k \in 1..(var_size + Len(cov)) |-> k - 1])
           reduced == Fit(i, "reduced", ReducedIndex(var_size, test_vars, Len(cov)))
       IN  IF Len(test_vars) # 1
           THEN /\ pvalues' = Append(pvalues, LrtPValue(i))
                /\ fits' = fits \o <<full, reduced>>
                /\ UNCHANGED <<pc, status>>
           ELSE IF Item(test_vars[1], var_size + Len(cov)) >= 0
           THEN /\ pvalues' = Append(pvalues, CoefPValue(i))
                /\ fits' = Append(fits, full)
                /\ UNCHANGED <<pc, status>>
           ELSE \* IndexError
                /\ pc' = "done" /\ status' = "raised"
                /\ fits' = Append(fits, full)
                /\ UNCHANGED pvalues
    /\ UNCHANGED <<inputs, logistic_kwargs, default_kwargs, cliVars>>
    /\ UNCHANGED <<ilVars, rfVars, result, chunkVars, gmmVars, grmVars,
                   afVars, var, var_size, test_vars, block_size, snp_start,
                   n_calls>>

\* return np.array(pvalues)
BlockTestReturn ==
    /\ op = "block_test" /\ pc = "fit" /\ ~fast /\ Len(pvalues) = n_var
    /\ pc' = "done"
    /\ status' = "returned"
    /\ result' = pvalues
    /\ UNCHANGED <<inputs, fitVars, cliVars>>
    /\ UNCHANGED <<ilVars, rfVars, chunkVars, gmmVars, grmVars, afVars,
                   margVars>>

(***************************************************************************)
(* impute_lanc                                                             *)
(***************************************************************************)
\* A dataset is a record: CHROM and POS per marker, the individuals'
\* identifiers, and lanc[indiv][snp][ploidy].  A marker's name (the snp
\* coordinate) is its position.  A cell of the working frame is <<>> when it
\* is NaN and <<label>> otherwise.

\* the distinct values of a coordinate
Unique(s) == {s[k] : k \in DOMAIN s}

\* the two single-chromosome assertions without the comparison of the two
\* data sets
ChromPreNoCompare ==
    /\ Cardinality(Unique(dset.CHROM)) = 1
    /\ Cardinality(Unique(dset_ref.CHROM)) = 1

\* both data sets can only have one chromosome, and the same one
ChromPre ==
    /\ Cardinality(Unique(dset.CHROM)) = 1
    /\ Cardinality(Unique(dset_ref.CHROM)) = 1
    /\ Unique(dset.CHROM) = Unique(dset_ref.CHROM)

\* assert set(dset.indiv.values) <= set(dset_ref.indiv.values)
IndivPre == Unique(dset.indiv) \subseteq Unique(dset_ref.indiv)

IndexOf(s, x) == CHOOSE k \in DOMAIN s : s[k] = x

\* the reference left in its own order of individuals
SelNothing(d, ids) == d

\* dset_ref.sel(indiv=dset.indiv.values)
SelIndiv(d, ids) ==
    [d EXCEPT !.indiv = ids,
              !.lanc = [j \in DOMAIN ids |-> d.lanc[IndexOf(d.indiv, ids[j])]]]

RefSel == SelIndiv(dset_ref, dset.indiv)

\* np.where(dset_ref["POS"] < dset["POS"][0])[0] and
\* np.where(dset_ref["POS"] > dset["POS"][-1])[0], as indices from 0
RefBelow == {k - 1 : k \in {j \in DOMAIN dset_ref.POS : dset_ref.POS[j] < dset.POS[1]}}

RefAbove ==
    {k - 1 : k \in {j \in DOMAIN dset_ref.POS :
                        dset_ref.POS[j] > dset.POS[Len(dset.POS)]}}

\* [-1] and [0] of an ascending index array
Last(S) == CHOOSE x \in S : \A y \in S : y <= x

First(S) == CHOOSE x \in S : \A y \in S : x <= y

\* dset_ref.isel(snp=slice(ref_start, ref_stop + 1)): the markers kept, as
\* indices from 1 into dset_ref
SubsetSnps == [k \in 1..(ref_stop - ref_start + 1) |-> ref_start + k]

\* dset_ref_subset.isel(snp=[0, -1])
MarginSnp(r) == IF r = 0 THEN SubsetSnps[1] ELSE SubsetSnps[Len(SubsetSnps)]

\* df_ref_margin.iloc[[r], :]: row r of dset_ref_margin.lanc[:, ploidy_i].values.T
MarginRow(ploidy_i, r) ==
    [label |-> dset_ref.POS[MarginSnp(r)],
     cells |-> [c \in DOMAIN dset.indiv |->
                    <<RefSel.lanc[c][MarginSnp(ploidy_i)][r + 1]>>]]

\* the frame indexed by dset.snp with one empty column per individual
EmptyRows ==
    [t \in DOMAIN dset.POS |->
        [label |-> dset.POS[t], cells |-> [c \in DOMAIN dset.indiv |-> <<>>]]]

\* pd.concat([df_ref_margin.iloc[[0], :], df_imputed, df_ref_margin.iloc[[-1], :]])
WithMargin(ploidy_i) ==
    <<MarginRow(ploidy_i, 0)>> \o EmptyRows \o <<MarginRow(ploidy_i, 1)>>

\* dset_ref_subset.snp.values
FillLabels == [k \in DOMAIN SubsetSnps |-> dset_ref.POS[SubsetSnps[k]]]

\* df.loc[labels, columns] = ... raises KeyError when a label is not in the
\* index of the frame
FillBinds(frame) ==
    \A k \in DOMAIN FillLabels : \E r \in DOMAIN frame : frame[r].label = FillLabels[k]

\* df_imputed.loc[dset_ref_subset.snp.values, dset_ref_subset.indiv.values] =
\*     dset_ref_subset["lanc"][:, :, ploidy_i].values.T
FillInside(frame, ploidy_i) ==
    [r \in DOMAIN frame |->
        IF \E k \in DOMAIN FillLabels : FillLabels[k] = frame[r].label
        THEN [frame[r] EXCEPT !.cells =
                [c \in DOMAIN dset.indiv |->
                    <<RefSel.lanc[c][SubsetSnps[IndexOf(FillLabels, frame[r].label)]]
                                 [ploidy_i + 1]>>]]
        ELSE frame[r]]

\* interpolate(method="nearest") after reset_index(): the filled row nearest
\* in row number, the earlier one when two are equally near
Nearest(frame, r, c) ==
    LET known == {q \in DOMAIN frame : frame[q].cells[c] # <<>>}
        best == CHOOSE q \in known : \A q2 \in known :
                    \/ Abs(q - r) < Abs(q2 - r)
                    \/ (Abs(q - r) = Abs(q2 - r) /\ q <= q2)
    IN  frame[best].cells[c]

Interpolate(frame) ==
    [r \in DOMAIN frame |->
        [frame[r] EXCEPT !.cells =
            [c \in DOMAIN dset.indiv |->
                IF frame[r].cells[c] = <<>> THEN Nearest(frame, r, c)
                ELSE frame[r].cells[c]]]]

\* df_imputed.loc[dset["snp"].values, dset["indiv"].values].values.astype(np.int8).T
AtTarget(frame) ==
    [c \in DOMAIN dset.indiv |->
        [t \in DOMAIN dset.POS |->
            frame[CHOOSE r \in DOMAIN frame : frame[r].label = dset.POS[t]].cells[c][1]]]

\* np.dstack(imputed_lanc)
DStack(layers) ==
    [c \in DOMAIN layers[1] |->
        [t \in DOMAIN layers[1][c] |-> [h \in DOMAIN layers |-> layers[h][c][t]]]]

ImputeLancStart ==
    /\ op = "impute_lanc" /\ pc = "start"
    /\ IF ChromPre /\ IndivPre /\ RefBelow # {} /\ RefAbove # {}
       THEN /\ ref_start' = Last(RefBelow)
            /\ ref_stop' = First(RefAbove)
            /\ pc' = "loop"
            /\ UNCHANGED status
       ELSE \* AssertionError, or IndexError from [0][-1] or [0][0]
            /\ pc' = "done"
            /\ status' = "raised"
            /\ UNCHANGED <<ref_start, ref_stop>>
    /\ UNCHANGED <<inputs, fitVars, cliVars>>
    /\ UNCHANGED <<rfVars, result, chunkVars, gmmVars, grmVars, afVars,
                   margVars, imputed_lanc>>

\* one iteration of: for ploidy_i in range(2)
ImputeLancPloidy ==
    /\ op = "impute_lanc" /\ pc = "loop" /\ Len(imputed_lanc) < 2
    /\ LET ploidy_i == Len(imputed_lanc)
           frame == WithMargin(ploidy_i)
       IN  IF FillBinds(frame)
           THEN /\ imputed_lanc' =
                      Append(imputed_lanc,
                             AtTarget(Interpolate(FillInside(frame, ploidy_i))))
                /\ UNCHANGED <<pc, status>>
           ELSE \* KeyError
                /\ pc' = "done"
                /\ status' = "raised"
                /\ UNCHANGED imputed_lanc
    /\ UNCHANGED <<inputs, fitVars, cliVars>>
    /\ UNCHANGED <<rfVars, result, chunkVars, gmmVars, grmVars, afVars,
                   margVars, ref_start, ref_stop>>

\* dset.assign(lanc=...) and return
ImputeLancReturn ==
    /\ op = "impute_lanc" /\ pc = "loop" /\ Len(imputed_lanc) = 2
    /\ pc' = "done"
    /\ status' = "returned"
    /\ result' = [dset EXCEPT !.lanc = DStack(imputed_lanc)]
    /\ UNCHANGED <<inputs, fitVars, cliVars>>
    /\ UNCHANGED <<ilVars, rfVars, chunkVars, gmmVars, grmVars, afVars,
                   margVars>>

(***************************************************************************)
(* read_rfmix                                                              *)
(***************************************************************************)
\* df_snp is its POS column.  df_rfmix holds epos per segment, the label pair
\* of every individual per segment (lanc0 + lanc1 as one string), the
\* individuals its columns name, and whether a ".2" column is present.
\* Indices and marker numbers count from 0 as in the code; sequences are
\* indexed from 1.

n_seg == Len(df_rfmix.epos)

\* df_rfmix_info.loc[len(df_rfmix_info) - 1, "epos"] = df_snp["POS"][-1] + 1
Epos(chunk_i) ==
    IF chunk_i = n_seg - 1 THEN df_snp[Len(df_snp)] + 1
    ELSE df_rfmix.epos[chunk_i + 1]

\* np.argmax(mask): the first index holding True, 0 when none does
ArgMax(mask) ==
    IF \E k \in DOMAIN mask : mask[k]
    THEN (CHOOSE k \in DOMAIN mask : mask[k] /\ \A j \in 1..(k - 1) : ~mask[j]) - 1
    ELSE 0

\* chunk_stop = np.argmax(df_snp["POS"] >= chunk["epos"]) - 1
ChunkStopOf(chunk_i) ==
    ArgMax([k \in DOMAIN df_snp |-> df_snp[k] >= Epos(chunk_i)]) - 1

\* the assertions of read_rfmix
ReadRfmixPre == ~df_rfmix.three_way /\ df_indiv = df_rfmix.columns

\* np.where(lanc.iloc[1:, :].values != lanc.iloc[:-1, :].values): the
\* (chunk_pos, indiv_pos) pairs in row-major order
RECURSIVE Changes(_, _)
Changes(chunk_pos, indiv) ==
    IF chunk_pos >= n_seg - 1 THEN <<>>
    ELSE IF indiv >= Len(df_indiv) THEN Changes(chunk_pos + 1, 0)
    ELSE (IF df_rfmix.lanc[chunk_pos + 2][indiv + 1]
                # df_rfmix.lanc[chunk_pos + 1][indiv + 1]
          THEN <<<<chunk_pos, indiv>>>> ELSE <<>>)
         \o Changes(chunk_pos, indiv + 1)

\* a[mask]: the entries of a where the mask holds, in order
RECURSIVE Masked(_, _)
Masked(a, mask) ==
    IF a = <<>> THEN <<>>
    ELSE (IF Head(mask) THEN <<Head(a)>> ELSE <<>>) \o Masked(Tail(a), Tail(mask))

\* np.unique(x, return_index=True): the distinct values in ascending order
\* and, for each, the index (from 1) of its first occurrence in x
RECURSIVE UniqueSorted(_, _)
UniqueSorted(x, S) ==
    IF S = {} THEN <<>>
    ELSE LET v == CHOOSE a \in S : \A b \in S : a <= b
             first == CHOOSE k \in DOMAIN x : x[k] = v /\ \A j \in 1..(k - 1) : x[j] # v
         IN  <<[value |-> v, index |-> first]>> \o UniqueSorted(x, S \ {v})

ReadRfmixStart ==
    /\ op = "read_rfmix" /\ pc = "start"
    /\ IF ReadRfmixPre
       THEN LET found == Changes(0, 0)
                n_indiv == Len(df_indiv)
                breaks == [k \in 1..n_seg |-> ChunkStopOf(k - 1)]
            IN  /\ rfmix_break_list' = breaks
                /\ snp_pos' = [k \in DOMAIN found |-> breaks[found[k][1] + 1]]
                                 \o [i \in 1..n_indiv |-> Len(df_snp) - 1]
                /\ indiv_pos' = [k \in DOMAIN found |-> found[k][2]]
                                   \o [i \in 1..n_indiv |-> i - 1]
                /\ values' = [k \in DOMAIN found |->
                                 df_rfmix.lanc[found[k][1] + 1][found[k][2] + 1]]
                                \o df_rfmix.lanc[n_seg]
                /\ pc' = "loop"
                /\ UNCHANGED status
       ELSE /\ pc' = "done"
            /\ status' = "raised"
            /\ UNCHANGED <<rfmix_break_list, snp_pos, indiv_pos, values>>
    /\ UNCHANGED <<inputs, fitVars, cliVars>>
    /\ UNCHANGED <<ilVars, result, chunkVars, gmmVars, grmVars, afVars,
                   margVars, break_list, value_list>>

\* one iteration of: for indiv_i in range(n_indiv)
ReadRfmixIndiv ==
    /\ op = "read_rfmix" /\ pc = "loop" /\ Len(break_list) < Len(df_indiv)
    /\ LET indiv_i == Len(break_list)
           indiv_mask == [k \in DOMAIN indiv_pos |-> indiv_pos[k] = indiv_i]
           shifted == [k \in DOMAIN snp_pos |-> snp_pos[k] + 1]
           mine == Masked(shifted, indiv_mask)
           uniq == UniqueSorted(mine, {mine[k] : k \in DOMAIN mine})
           mine_values == Masked(values, indiv_mask)
       IN  /\ break_list' = Append(break_list, [k \in DOMAIN uniq |-> uniq[k].value])
           /\ value_list' =
                 Append(value_list, [k \in DOMAIN uniq |-> mine_values[uniq[k].index]])
    /\ UNCHANGED <<inputs, fitVars, cliVars>>
    /\ UNCHANGED <<ilVars, pc, status, result, chunkVars, gmmVars, grmVars,
                   afVars, margVars, rfmix_break_list, snp_pos, indiv_pos, values>>

\* return admix.data.Lanc(breaks=break_list, values=value_list)
ReadRfmixReturn ==
    /\ op = "read_rfmix" /\ pc = "loop" /\ Len(break_list) = Len(df_indiv)
    /\ pc' = "done"
    /\ status' = "returned"
    /\ result' = [breaks |-> break_list, values |-> value_list]
    /\ UNCHANGED <<inputs, fitVars, cliVars>>
    /\ UNCHANGED <<ilVars, rfVars, chunkVars, gmmVars, grmVars, afVars,
                   margVars>>

(***************************************************************************)
(* lanc_impute (command line)                                              *)
(***************************************************************************)
\* A path is the sequence of its parts, so that pfile + ".lanc" is
\* pfile \o <<".lanc">>; a PLINK2 prefix stands for its set of files.  The
\* file system maps the paths that exist to their content.

\* pfile + ".lanc"
LancPath(prefix) == prefix \o <<".lanc">>

\* os.path.exists(path)
Exists(path) == path \in DOMAIN fs

\* the paths read_dataset(pfile=prefix) reads: <prefix>.lanc when it exists,
\* then the PLINK2 files
ReadByDataset(prefix) ==
    (IF Exists(LancPath(prefix)) THEN <<LancPath(prefix)>> ELSE <<>>)
        \o (IF Exists(prefix) THEN <<prefix>> ELSE <<>>)

\* the output path taken whether or not it exists
OutFreeUnchecked(path) == TRUE

\* assert not os.path.exists(out)
OutFree(path) == ~Exists(path)

\* log_params and the assertion on <pfile>.lanc
LancImputeStart ==
    /\ op = "lanc_impute" /\ pc = "start"
    /\ IF ~Exists(LancPath(pfile))
       THEN pc' = "read" /\ UNCHANGED status
       ELSE pc' = "done" /\ status' = "raised"
    /\ UNCHANGED <<inputs, fitVars, cliVars>>
    /\ UNCHANGED <<ilVars, rfVars, result, chunkVars, gmmVars, grmVars, afVars, margVars>>

\* sample_dset = admix.io.read_dataset(pfile=pfile)
LancImputeReadSample ==
    /\ op = "lanc_impute" /\ pc = "read"
    /\ opened' = opened \o ReadByDataset(pfile)
    /\ IF Exists(pfile)
       THEN pc' = "read_ref" /\ UNCHANGED status
       ELSE pc' = "done" /\ status' = "raised"
    /\ UNCHANGED <<inputs, fitVars, fs>>
    /\ UNCHANGED <<ilVars, rfVars, result, chunkVars, gmmVars, grmVars, afVars, margVars>>

\* ref_dset = admix.io.read_dataset(pfile=ref_pfile) and
\* ref_lanc = admix.data.Lanc(ref_pfile + ".lanc")
LancImputeReadRef ==
    /\ op = "lanc_impute" /\ pc = "read_ref"
    /\ IF ~Exists(ref_pfile)
       THEN /\ opened' = opened \o ReadByDataset(ref_pfile)
            /\ pc' = "done" /\ status' = "raised"
       ELSE IF ~Exists(LancPath(ref_pfile))
       THEN /\ opened' = opened \o ReadByDataset(ref_pfile)
            /\ pc' = "done" /\ status' = "raised"
       ELSE /\ opened' = opened \o ReadByDataset(ref_pfile) \o <<LancPath(ref_pfile)>>
            /\ pc' = "impute" /\ UNCHANGED status
    /\ UNCHANGED <<inputs, fitVars, fs>>
    /\ UNCHANGED <<ilVars, rfVars, result, chunkVars, gmmVars, grmVars, afVars, margVars>>

\* sample_lanc = ref_lanc.impute(...): works on what has been read, and may
\* raise
LancImputeImpute ==
    /\ op = "lanc_impute" /\ pc = "impute"
    /\ \/ pc' = "write" /\ UNCHANGED status
       \/ pc' = "done" /\ status' = "raised"
    /\ UNCHANGED <<inputs, fitVars, cliVars>>
    /\ UNCHANGED <<ilVars, rfVars, result, chunkVars, gmmVars, grmVars, afVars, margVars>>

\* if out is None: out = pfile + ".lanc"; the assertion on out;
\* sample_lanc.write(out)
LancImputeWrite ==
    /\ op = "lanc_impute" /\ pc = "write"
    /\ LET target == IF out = <<>> THEN LancPath(pfile) ELSE out
       IN  IF OutFree(target)
           THEN /\ fs' = [p \in DOMAIN fs \cup {target} |->
                            IF p = target THEN "imputed" ELSE fs[p]]
                /\ pc' = "done" /\ status' = "returned"
           ELSE /\ pc' = "done" /\ status' = "raised"
                /\ UNCHANGED fs
    /\ UNCHANGED <<inputs, fitVars, opened>>
    /\ UNCHANGED <<ilVars, rfVars, result, chunkVars, gmmVars, grmVars, afVars, margVars>>

(***************************************************************************)
(* Initial states: the arguments of the call.                              *)
(***************************************************************************)
\* lanc as given, or with its last marker missing (a shape mismatch)
LancChoices(l) == {l} \cup (IF Len(l) > 1 THEN {SubSeq(l, 1, Len(l) - 1)} ELSE {})

\* no file at all
NoFiles == [p \in {} |-> "stored"]

NoCliArgs == pfile = <<>> /\ ref_pfile = <<>> /\ out = <<>>

\* nothing computed yet
WorkingButRecipe ==
    /\ pc = "start" /\ status = "running" /\ result = <<>>
    /\ reads = 0 /\ visited = <<>>
    /\ ret = <<>> /\ snp_var = <<>> /\ gmm_chunk = <<>>
    /\ ref_start = 0 /\ ref_stop = 0 /\ imputed_lanc = <<>>
    /\ rfmix_break_list = <<>> /\ snp_pos = <<>> /\ indiv_pos = <<>>
    /\ values = <<>> /\ break_list = <<>> /\ value_list = <<>>
    /\ G1 = <<>> /\ G2 = <<>> /\ G12 = <<>>
    /\ af = <<>> /\ lanc_nhaplo = <<>>
    /\ block_size = 0 /\ snp_start = 0 /\ pvalues = <<>> /\ n_calls = 0
    /\ fits = <<>> /\ default_kwargs = {} /\ opened = <<>>

Working ==
    /\ WorkingButRecipe /\ var = <<>> /\ var_size = 0 /\ test_vars = <<>>

IdleButRecipe == WorkingButRecipe /\ NoCliArgs /\ fs = NoFiles

Idle == IdleButRecipe /\ var = <<>> /\ var_size = 0 /\ test_vars = <<>>

NoGmmArgs ==
    /\ mat = <<>> /\ mat_dim = "none" /\ impute_geno = FALSE
    /\ return_snp_var = FALSE /\ geno_in_memory = FALSE

NoMargArgs == method = "none" /\ n_block = 0 /\ cov = <<>>

NoPheno == [ndim |-> 0, rows |-> 0]

NoKwargs == kwargs_given = FALSE /\ logistic_kwargs = {}

NoFitArgs == pheno = NoPheno /\ fast = FALSE /\ family = "none" /\ NoKwargs

NoDataset == [CHROM |-> <<>>, POS |-> <<>>, indiv |-> <<>>, lanc |-> <<>>]

NoImputeArgs == dset = NoDataset /\ dset_ref = NoDataset

NoRfmix == [epos |-> <<>>, lanc |-> <<>>, columns |-> <<>>, three_way |-> FALSE]

NoRfmixArgs == df_snp = <<>> /\ df_rfmix = NoRfmix /\ df_indiv = <<>>

InitAllelePerAnc ==
    /\ op = "allele_per_anc"
    /\ \E d \in LabelledData \cup AnyLabelData :
        /\ geno = d.geno
        /\ lanc \in LancChoices(d.lanc)
        /\ chunks \in Chunkings(Len(d.geno))
    /\ n_anc \in 1..MaxAnc
    /\ snp_prior_var = <<>>
    /\ NoGmmArgs /\ NoMargArgs /\ NoFitArgs /\ NoImputeArgs /\ NoRfmixArgs /\ Idle

\* snp_prior_var: None, or one prior variance per marker
PriorChoices(n) ==
    {<<>>, [m \in 1..n |-> 4], [m \in 1..n |-> IF m % 2 = 1 THEN 4 ELSE 1]}

InitAdmixGrm ==
    /\ op = "admix_grm"
    /\ \E d \in LabelledData :
        /\ geno = d.geno
        /\ lanc \in LancChoices(d.lanc)
        /\ chunks \in Chunkings(Len(d.geno))
        /\ snp_prior_var \in PriorChoices(Len(d.geno))
    /\ n_anc \in 1..MaxAnc
    \* a call refused for its n_anc is tried on unchunked data without priors
    /\ n_anc # 2 => (Len(chunks) = 1 /\ snp_prior_var = <<>>)
    /\ NoGmmArgs /\ NoMargArgs /\ NoFitArgs /\ NoImputeArgs /\ NoRfmixArgs /\ Idle

InitAfPerAnc ==
    /\ op = "af_per_anc"
    /\ \E d \in LabelledData :
        /\ geno = d.geno
        /\ lanc \in LancChoices(d.lanc)
        /\ chunks \in Chunkings(Len(d.geno))
    /\ n_anc \in 1..MaxAnc
    /\ snp_prior_var = <<>>
    /\ NoGmmArgs /\ NoMargArgs /\ NoFitArgs /\ NoImputeArgs /\ NoRfmixArgs /\ Idle

\* (n_snp, n_indiv) dosage matrices with missing calls
DosageVals == <<Float(0), Float(1), Float(2), NaN>>

GenoRow2D(k) == [i \in 1..NIndiv |-> DosageVals[((k + 3 * (i - 1)) % 4) + 1]]

AllMissingRow == [i \in 1..NIndiv |-> NaN]

DosageData == SeqsUpTo({GenoRow2D(2), GenoRow2D(3), AllMissingRow}, MaxSnp)

\* a (rows, 2) matrix whose rows differ
MatOf(rows) == [r \in 1..rows |-> <<Float(r), Float(1)>>]

InitGenoMultMat ==
    /\ op = "geno_mult_mat"
    /\ geno \in DosageData
    /\ chunks \in Chunkings(Len(geno))
    /\ mat_dim \in {"snp", "indiv"}
    /\ impute_geno \in BOOLEAN
    /\ return_snp_var \in BOOLEAN
    /\ \E d \in {-1, 0, 1} :
        /\ (IF mat_dim = "indiv" THEN NIndiv ELSE Len(geno)) + d >= 1
        /\ mat = MatOf((IF mat_dim = "indiv" THEN NIndiv ELSE Len(geno)) + d)
        /\ geno_in_memory \in (IF impute_geno /\ ~return_snp_var /\ d = 0
                                THEN BOOLEAN ELSE {FALSE})
        \* a mat of the wrong height is tried without the two options
        /\ d # 0 => (~impute_geno /\ ~return_snp_var)
    /\ lanc = <<>> /\ n_anc = 0 /\ snp_prior_var = <<>>
    /\ NoMargArgs /\ NoFitArgs /\ NoImputeArgs /\ NoRfmixArgs /\ Idle

\* datasets of n markers whose rows cycle through the catalogue from offset o
CyclicData ==
    {[geno |-> [m \in 1..n |-> GenoRow(KeyAt(o + m), 2)],
      lanc |-> [m \in 1..n |-> LancRow(KeyAt(o + m), 2)]] :
        n \in 1..MaxSnp, o \in DOMAIN KeyList}

\* cov: None, one covariate column, or a column with one row too many
CovChoices ==
    {<<>>, <<[i \in 1..NIndiv |-> i]>>, <<[i \in 1..(NIndiv + 1) |-> i]>>}

InitMarginal ==
    /\ op = "marginal"
    /\ \E d \in CyclicData :
        /\ geno = d.geno
        /\ lanc \in LancChoices(d.lanc)
        /\ chunks = <<Len(d.geno)>>
    /\ method \in {"ATT", "TRACTOR", "ADM", "SNP1", "ASE"}
    /\ n_block \in 1..MaxBlock
    /\ cov \in CovChoices
    /\ n_anc = 2 /\ snp_prior_var = <<>>
    /\ pheno = [ndim |-> 1, rows |-> NIndiv] /\ fast = FALSE /\ family = "linear"
    /\ NoKwargs
    /\ NoGmmArgs /\ NoImputeArgs /\ NoRfmixArgs /\ Idle

\* test_vars: inside [0, var_size) for some var_size, negative, or too large
TestVarChoices == {<<0>>, <<0, 1>>, <<-1>>, <<0, -1>>, <<2>>, <<1, 3>>}

VarSizeChoices == 0..3

PhenoChoices ==
    {[ndim |-> 1, rows |-> NIndiv], [ndim |-> 1, rows |-> NIndiv + 1],
     [ndim |-> 2, rows |-> NIndiv]}

\* logistic_kwargs: empty, or with one of the two options set by the caller
KwargsChoices == {{}, {<<"max_iter", Float(50)>>}}

InitBlockTest ==
    /\ op = "block_test"
    /\ var \in {[k \in 1..n |-> [i \in 1..NIndiv |-> k + i]] : n \in 1..MaxSnp}
    /\ var_size \in VarSizeChoices
    /\ test_vars \in TestVarChoices
    /\ cov \in {<<[i \in 1..r |-> 1]>> : r \in {NIndiv, NIndiv + 1}}
    /\ pheno \in PhenoChoices
    /\ fast \in BOOLEAN
    /\ family \in {"linear", "logistic", "poisson"}
    /\ IF fast /\ family = "logistic"
       THEN /\ kwargs_given \in BOOLEAN
            /\ logistic_kwargs \in (IF kwargs_given THEN KwargsChoices ELSE {{}})
       ELSE NoKwargs
    /\ geno = <<>> /\ lanc = <<>> /\ chunks = <<>> /\ n_anc = 0
    /\ snp_prior_var = <<>> /\ method = "none" /\ n_block = 0
    /\ NoGmmArgs /\ NoImputeArgs /\ NoRfmixArgs /\ IdleButRecipe

\* genomic coordinates the markers of the two data sets are taken from
Coords == <<50, 100, 110, 120, 300>>

\* the ascending sequence of the coordinates picked by a set of indices
RECURSIVE Ascending(_)
Ascending(S) ==
    IF S = {} THEN <<>>
    ELSE LET k == CHOOSE x \in S : \A y \in S : x <= y
         IN  <<Coords[k]>> \o Ascending(S \ {k})

PosChoices(least) ==
    {Ascending(S) : S \in {T \in SUBSET DOMAIN Coords : Cardinality(T) >= least}}

\* the label of the reference individual id at its k-th marker, haplotype h:
\* it alternates along the markers, differs between the two haplotypes and
\* is shared by no two individuals
RefLabel(id, k, h) == 2 * (id - 1) + ((k + h) % 2)

RefIndiv == <<1, 2>>

TargetIndivChoices == {<<1>>, <<2, 1>>, <<3>>, <<1, 3>>}

\* CHROM of n markers: one chromosome throughout, or a second one at the end
ChromChoices(n) ==
    {[k \in 1..n |-> 1], [k \in 1..n |-> 2]}
        \cup (IF n > 1 THEN {[k \in 1..n |-> IF k = n THEN 2 ELSE 1]} ELSE {})

TargetOf(pos, chrom, ids) ==
    [CHROM |-> chrom, POS |-> pos, indiv |-> ids, lanc |-> <<>>]

ReferenceOf(pos, chrom) ==
    [CHROM |-> chrom, POS |-> pos, indiv |-> RefIndiv,
     lanc |-> [c \in DOMAIN RefIndiv |->
                  [k \in DOMAIN pos |-> [h \in 1..2 |-> RefLabel(RefIndiv[c], k, h)]]]]

\* every placement of the markers on one chromosome with known individuals;
\* unknown individuals and other chromosomes with the markers held fixed
InitImputeLanc ==
    /\ op = "impute_lanc"
    /\ \/ \E tpos \in PosChoices(1), rpos \in PosChoices(2) :
            /\ \E ids \in {<<1>>, <<2, 1>>} :
                  dset = TargetOf(tpos, [k \in DOMAIN tpos |-> 1], ids)
            /\ dset_ref = ReferenceOf(rpos, [k \in DOMAIN rpos |-> 1])
       \/ \E tpos \in {<<100>>, <<100, 110>>}, rpos \in {<<50, 120>>} :
            /\ \E ids \in TargetIndivChoices, ch \in ChromChoices(Len(tpos)) :
                  dset = TargetOf(tpos, ch, ids)
            /\ \E ch \in ChromChoices(Len(rpos)) : dset_ref = ReferenceOf(rpos, ch)
    /\ geno = <<>> /\ lanc = <<>> /\ chunks = <<>> /\ n_anc = 0
    /\ snp_prior_var = <<>>
    /\ NoGmmArgs /\ NoMargArgs /\ NoFitArgs /\ NoRfmixArgs /\ Idle

\* marker positions, and the coordinates a segment may end at: ahead of the
\* first marker, between two markers, on a marker, beyond the last marker
MarkerChoices == {<<100, 110>>, <<100, 110, 120>>}

EdgeCoords == <<40, 105, 110, 125>>

RECURSIVE AscendingEdges(_)
AscendingEdges(S) ==
    IF S = {} THEN <<>>
    ELSE LET k == CHOOSE x \in S : \A y \in S : x <= y
         IN  <<EdgeCoords[k]>> \o AscendingEdges(S \ {k})

\* up to three segments; the last one's end is replaced by the code
EdgeChoices ==
    {AscendingEdges(S) \o <<400>> :
        S \in {T \in SUBSET DOMAIN EdgeCoords : Cardinality(T) <= 2}}

RfmixOf(epos, labels, three) ==
    [epos |-> epos, lanc |-> labels, columns |-> [i \in 1..NIndiv |-> i],
     three_way |-> three]

\* the labels of the first two individuals vary from segment to segment
InitReadRfmix ==
    /\ op = "read_rfmix"
    /\ df_snp \in MarkerChoices
    /\ \/ /\ \E epos \in EdgeChoices :
                \E labels \in [DOMAIN epos -> [1..NIndiv -> {"00", "01"}]] :
                    /\ \A k \in DOMAIN epos : \A i \in 3..NIndiv : labels[k][i] = "00"
                    /\ df_rfmix = RfmixOf(epos, labels, FALSE)
          /\ df_indiv = [i \in 1..NIndiv |-> i]
       \/ /\ \E three \in BOOLEAN :
                df_rfmix = RfmixOf(<<105, 125>>,
                                   <<[i \in 1..NIndiv |-> "00"], [i \in 1..NIndiv |-> "01"]>>,
                                   three)
          /\ df_indiv \in {[i \in 1..NIndiv |-> i], [i \in 1..NIndiv |-> NIndiv + 1 - i]}
    /\ geno = <<>> /\ lanc = <<>> /\ chunks = <<>> /\ n_anc = 0
    /\ snp_prior_var = <<>>
    /\ NoGmmArgs /\ NoMargArgs /\ NoFitArgs /\ NoImputeArgs /\ Idle

\* the files a call of lanc_impute may find
PathChoices ==
    {<<"sample">>, <<"ref">>, LancPath(<<"sample">>), LancPath(<<"ref">>), <<"out">>}

InitLancImpute ==
    /\ op = "lanc_impute"
    /\ pfile = <<"sample">> /\ ref_pfile = <<"ref">>
    /\ out \in {<<>>, <<"out">>, LancPath(<<"sample">>), LancPath(<<"ref">>)}
    /\ fs \in {[p \in S |-> "stored"] : S \in SUBSET PathChoices}
    /\ geno = <<>> /\ lanc = <<>> /\ chunks = <<>> /\ n_anc = 0
    /\ snp_prior_var = <<>>
    /\ NoGmmArgs /\ NoMargArgs /\ NoFitArgs /\ NoImputeArgs /\ NoRfmixArgs
    /\ Working

Init ==
    \/ InitLancImpute
    \/ InitAllelePerAnc \/ InitAdmixGrm \/ InitAfPerAnc \/ InitGenoMultMat
    \/ InitMarginal \/ InitBlockTest \/ InitImputeLanc \/ InitReadRfmix

Next ==
    \/ AllelePerAnc
    \/ AdmixGrmStart \/ AdmixGrmChunk \/ AdmixGrmChunkRaises \/ AdmixGrmReturn
    \/ AfPerAncStart \/ AfPerAncChunk \/ AfPerAncReturn
    \/ GenoMultMatStart \/ GenoMultMatChunk \/ GenoMultMatChunkRaises
    \/ GenoMultMatReturn
    \/ MarginalStart \/ MarginalBlock \/ MarginalReturn
    \/ BlockTestStart \/ BlockTestFast \/ BlockTestFit \/ BlockTestReturn
    \/ ImputeLancStart \/ ImputeLancPloidy \/ ImputeLancReturn
    \/ ReadRfmixStart \/ ReadRfmixIndiv \/ ReadRfmixReturn
    \/ LancImputeStart \/ LancImputeReadSample \/ LancImputeReadRef
    \/ LancImputeImpute \/ LancImputeWrite

Spec == Init /\ [][Next]_vars

\* marginal alone; a call that can take a step takes it (the interpreter
\* does not pause)
MarginalNext == MarginalStart \/ MarginalBlock \/ MarginalReturn

MarginalFairSpec ==
    InitMarginal /\ [][MarginalNext]_vars /\ WF_vars(MarginalNext)


(***************************************************************************)
(* Properties                                                              *)
(***************************************************************************)
n_snp == Len(geno)

AllLabelsIn(l, anc) ==
    \A m \in DOMAIN l : \A i \in DOMAIN l[m] : \A h \in 1..2 :
        l[m][i][h] \in 0..(anc - 1)

\* the outcome of marginal run as a single block (n_block = 1)
MarginalOneBlock ==
    IF ~MarginalBuilds
    THEN [status |-> "raised", result |-> <<>>]
    ELSE [status |-> "returned",
          result |-> _block_test(VarMatrix(method, MarginalApa), WithIntercept(cov),
                                 Recipe(method).var_size, Recipe(method).test_vars)]

\* C1 (as claimed): for every n_snp >= 1 and n_block >= 1, marginal comes back
\* with the outcome of the n_block = 1 run: the same p-values, in the same
\* order, of the same length.
C1_BlockCountInvariance ==
    (op = "marginal") ~>
        (pc = "done" /\ status = MarginalOneBlock.status
                     /\ result = MarginalOneBlock.result)

\* C2 (as claimed): for each accepted method and inputs within the shape
\* contract, marginal does not fail while building the variables, the variable
\* matrix has var_size columns per marker, and the call returns n_snp p-values,
\* the i-th computed from marker i's columns.
C2_EveryMethodBuilds ==
    (op = "marginal" /\ MarginalPre) =>
        /\ status # "raised"
        /\ pc = "loop" => Len(var) = var_size * n_snp
        /\ status = "returned" =>
            /\ Len(result) = n_snp
            /\ \A m \in 1..n_snp :
                result[m] = PValue(SubSeq(var, (m - 1) * var_size + 1, m * var_size)
                                       \o WithIntercept(cov), test_vars)

\* C3 (as claimed): every iteration of marginal's block loop strictly
\* increases snp_start, for every n_block >= 1.
C3_BlockLoopAdvances ==
    [][(op = "marginal" /\ pc = "loop" /\ pc' = "loop") => snp_start' > snp_start]_vars


\* the whole marker axis taken as one chunk
WholeChunk == IF impute_geno THEN impute_with_mean(geno) ELSE geno

\* geno_mult_mat's product computed in one piece
ProductInOnePiece ==
    IF mat_dim = "indiv" THEN Dot(WholeChunk, mat) ELSE Dot(Transpose(WholeChunk), mat)

\* admix_grm's matrix for channels k and l computed in one piece
GrmInOnePiece(k, l) ==
    LET apa == ScaledApaChunk(0, n_snp)
    IN  MatDiv(DotT(Channel(apa, k), Channel(apa, l)), snp_prior_var_sum)

\* C4: whatever the chunk partition, geno_mult_mat returns the product and
\* admix_grm the three matrices that the single chunk [0, n_snp) gives.
C4_ChunkPartitionInvariance ==
    /\ (op = "geno_mult_mat" /\ status = "returned") => result[1] = ProductInOnePiece
    /\ (op = "admix_grm" /\ status = "returned") =>
            result = <<GrmInOnePiece(1, 1), GrmInOnePiece(2, 2), GrmInOnePiece(1, 2)>>

C4_Witness ==
    /\ op = "geno_mult_mat" /\ status = "returned"
    /\ mat_dim = "snp" /\ impute_geno /\ Len(chunks) >= 2
    /\ \E m \in DOMAIN geno : IsNaN(geno[m][1]) /\ ~IsNaN(geno[m][2])
    /\ \E i \in DOMAIN result[1] : ~IsNaN(result[1][i][1]) /\ result[1][i][1] # Float(0)

ChunkLoopOps == {"geno_mult_mat", "admix_grm", "af_per_anc"}

\* the chunks among those visited that hold marker m (0-based)
ChunksHolding(m) ==
    {k \in DOMAIN visited : visited[k][1] <= m /\ m < visited[k][2]}

\* C5: the (start, stop) pairs the reducers visit are ascending, do not
\* overlap, leave no gap, and cover [0, n_snp) once the loop is over; every
\* marker is in exactly one of them.
C5_ChunksPartitionMarkers ==
    op \in ChunkLoopOps =>
        /\ \A k \in DOMAIN visited : visited[k][1] < visited[k][2]
        /\ visited # <<>> => visited[1][1] = 0
        /\ \A k \in 1..(Len(visited) - 1) : visited[k + 1][1] = visited[k][2]
        /\ \A m \in 0..(n_snp - 1) : Cardinality(ChunksHolding(m)) <= 1
        /\ status = "returned" =>
            /\ visited # <<>> /\ visited[Len(visited)][2] = n_snp
            /\ \A m \in 0..(n_snp - 1) : Cardinality(ChunksHolding(m)) = 1

C5_Witness ==
    /\ op = "af_per_anc" /\ status = "returned"
    /\ visited = <<<<0, 1>>, <<1, 3>>>>

\* C6: with n_anc = 2 and every label in {0, 1}, the two channels of
\* allele_per_anc add up to the two haplotypes' alleles, and each channel holds
\* the alleles of the haplotypes carrying its label.
C6_ChannelsSumToAlleleCount ==
    (op = "allele_per_anc" /\ status = "returned" /\ n_anc = 2 /\ AllLabelsIn(lanc, 2)) =>
        \A m \in DOMAIN result : \A i \in DOMAIN result[m] :
            /\ Add(result[m][i][1], result[m][i][2]) = Float(geno[m][i][1] + geno[m][i][2])
            /\ \A a \in 0..1 :
                result[m][i][a + 1] =
                    Float(SumSeq([h \in 1..2 |->
                            IF lanc[m][i][h] = a THEN geno[m][i][h] ELSE 0]))

C6_Witness ==
    /\ op = "allele_per_anc" /\ status = "returned" /\ n_anc = 2
    /\ AllLabelsIn(lanc, 2)
    /\ \E m \in DOMAIN geno : \E i \in 1..NIndiv :
        /\ geno[m][i] = <<1, 1>> /\ lanc[m][i] = <<0, 0>>
        /\ result[m][i] = <<Float(2), Float(0)>>
    /\ \E m \in DOMAIN geno : \E i \in 1..NIndiv :
        /\ geno[m][i] = <<1, 1>> /\ lanc[m][i] = <<1, 0>>
        /\ result[m][i] = <<Float(1), Float(1)>>

\* C7 (as claimed): allele_per_anc fails on any input holding a label outside
\* [0, n_anc).
C7_OutOfRangeLabelRejected ==
    (op = "allele_per_anc" /\ pc = "done" /\ ~AllLabelsIn(lanc, n_anc)) =>
        status = "raised"

\* C8: admix_grm with n_anc other than 2 fails at once: no chunk is read, no
\* allele count is computed, nothing is returned.
C8_OnlyTwoWayAdmixture ==
    (op = "admix_grm" /\ n_anc # 2) =>
        /\ reads = 0 /\ visited = <<>> /\ result = <<>>
        /\ pc # "start" => (pc = "done" /\ status = "raised")

C8_Witness ==
    op = "admix_grm" /\ n_anc = 3 /\ pc = "done" /\ status = "raised" /\ reads = 0

\* the cross term with the ancestries exchanged, summed over all markers at
\* once: sum_m v[m] * a2[m, i] * a1[m, j] / sum(v)
SwappedCross(i, j) ==
    LET apa == helper(geno, lanc, n_anc)
    IN  Div(SumFloat([m \in 1..n_snp |->
                Mul(Float(PriorVar[m]), Mul(apa[m][i][2], apa[m][j][1]))]),
            snp_prior_var_sum)

\* C9: the same-ancestry matrices of admix_grm are symmetric with a
\* non-negative diagonal, and the transpose of the cross matrix is the cross
\* term with the ancestries exchanged.
C9_KinshipSymmetry ==
    (op = "admix_grm" /\ status = "returned") =>
        \A i, j \in 1..NIndiv :
            /\ result[1][i][j] = result[1][j][i]
            /\ result[2][i][j] = result[2][j][i]
            /\ IsFinite(result[1][i][i]) /\ result[1][i][i][1] >= 0
            /\ IsFinite(result[2][i][i]) /\ result[2][i][i][1] >= 0
            /\ result[3][j][i] = SwappedCross(i, j)

C9_Witness ==
    /\ op = "admix_grm" /\ status = "returned" /\ Len(chunks) >= 2
    /\ snp_prior_var # <<>>
    /\ result[3][1][2] # result[3][2][1]
    /\ result[1][1][2] # Float(0) /\ result[2][1][2] # Float(0)

\* C10: geno_mult_mat fails when mat's row count is not the length of the
\* axis mat_dim names, and no chunk has been read by then.
C10_MatRowsChecked ==
    (op = "geno_mult_mat" /\ Len(mat) # ExpectedRows) =>
        /\ reads = 0 /\ visited = <<>> /\ result = <<>>
        /\ pc # "start" => (pc = "done" /\ status = "raised")

C10_Witness ==
    /\ op = "geno_mult_mat" /\ mat_dim = "snp" /\ Len(mat) = n_snp + 1
    /\ pc = "done" /\ status = "raised" /\ reads = 0


\* every index of test_vars lies in [0, var_size)
TestVarsInRange == \A k \in DOMAIN test_vars : test_vars[k] \in 0..(var_size - 1)

\* C11 (as claimed): whenever test_vars is not a subset of [0, var_size), be it
\* by an index >= var_size or by a negative index, _block_test fails and no
\* regression is fitted.
C11_TestVarsRejected ==
    (op = "block_test" /\ ~TestVarsInRange) =>
        (pc # "fit" /\ pvalues = <<>> /\ status # "returned")

\* C12: when geno and lanc differ in shape or cov's row count differs from the
\* individual count, marginal fails ahead of its block loop; when cov's row
\* count is wrong or var_size does not divide the column count, _block_test
\* fails ahead of its first fit; no p-value is produced in either case.
C12_ShapeContract ==
    /\ (op = "marginal"
            /\ (Shape3(geno) # Shape3(lanc)
                    \/ \E k \in DOMAIN cov : Len(cov[k]) # NIndiv)) =>
          (pc # "loop" /\ pvalues = <<>> /\ n_calls = 0 /\ status # "returned")
    /\ (op = "block_test"
            /\ ((\E k \in DOMAIN cov : Len(cov[k]) # NIndiv)
                    \/ (var_size > 0 /\ Len(var) % var_size # 0))) =>
          (pc # "fit" /\ pvalues = <<>> /\ status # "returned")

\* _block_test has raised on a block whose only fault is a column count that
\* var_size does not divide
C12_Witness ==
    /\ op = "block_test" /\ pc = "done" /\ status = "raised" /\ pvalues = <<>>
    /\ \A k \in DOMAIN cov : Len(cov[k]) = NIndiv
    /\ PhenoPre /\ FamilyKnown /\ TestVarsInRange
    /\ var_size = 2 /\ Len(var) = 3

\* C13 (as claimed): when more than one variable is tested jointly, in the
\* fast logistic path and in the statsmodels path alike, every p-value is a
\* chi-squared survival with len(test_vars) degrees of freedom.
C13_JointTestDegreesOfFreedom ==
    (op = "block_test" /\ Len(test_vars) > 1 /\ TestVarsInRange
        /\ (~fast \/ family = "logistic")) =>
        \A k \in DOMAIN pvalues :
            pvalues[k].dist = "chi2" /\ pvalues[k].df = Len(test_vars)

\* the individuals with a call at one marker, and the mean of their calls
Called(row) == {i \in DOMAIN row : ~IsNaN(row[i])}

RECURSIVE TotalOver(_, _)
TotalOver(row, S) ==
    IF S = {} THEN Float(0)
    ELSE LET i == CHOOSE x \in S : TRUE
         IN  Add(row[i], TotalOver(row, S \ {i}))

MeanOfCalled(row) == Div(TotalOver(row, Called(row)), Float(Cardinality(Called(row))))

\* C14: with impute_geno, the chunk geno_mult_mat multiplies holds, at every
\* (marker, indiv), the genotype as stored when it is not missing and
\* otherwise the mean of that marker's non-missing calls over the individuals
\* (a marker without any call stays missing); nothing of another marker or
\* chunk enters.
C14_ImputedByMarkerMean ==
    (op = "geno_mult_mat" /\ impute_geno /\ visited # <<>>) =>
        LET start == visited[Len(visited)][1]
            stop == visited[Len(visited)][2]
        IN  /\ Len(gmm_chunk) = stop - start
            /\ \A m \in 1..(stop - start) : \A i \in 1..NIndiv :
                    LET row == geno[start + m]
                    IN  IF ~IsNaN(row[i]) THEN gmm_chunk[m][i] = row[i]
                        ELSE IF Called(row) # {}
                        THEN gmm_chunk[m][i] = MeanOfCalled(row)
                        ELSE IsNaN(gmm_chunk[m][i])

\* a chunk of two markers, not the first of its array, in which a missing
\* call has been replaced while the marker next to it holds other values
C14_Witness ==
    /\ op = "geno_mult_mat" /\ impute_geno /\ Len(visited) >= 2
    /\ Len(gmm_chunk) = 2
    /\ \E m \in 1..2 :
          LET row == geno[visited[Len(visited)][1] + m]
          IN  /\ IsNaN(row[1]) /\ ~IsNaN(row[2])
              /\ gmm_chunk[m][1] = row[2]
              /\ gmm_chunk[3 - m] # gmm_chunk[m]

\* C15 (as claimed): with return_snp_var, for any chunking and any number of
\* individuals, geno_mult_mat returns one variance per marker, entry m being
\* the variance of marker m's (imputed) genotypes across individuals.
C15_PerMarkerVariance ==
    (op = "geno_mult_mat" /\ return_snp_var /\ GenoMultMatPre /\ pc = "done") =>
        /\ status = "returned"
        /\ Len(result[2]) = n_snp
        /\ \A m \in 1..n_snp : result[2][m] = Var(WholeChunk[m])

\* the reference individual a target individual is, by identifier
SameIndiv(c) == IndexOf(dset_ref.indiv, dset.indiv[c])

\* some target marker lies below the first or above the last reference marker
OutsideReference ==
    \/ dset.POS[1] < dset_ref.POS[1]
    \/ dset.POS[Len(dset.POS)] > dset_ref.POS[Len(dset_ref.POS)]

\* C16 (as claimed): with target markers outside the range of the reference
\* positions, impute_lanc does not fail, and a target marker below the first
\* (above the last) reference position receives the label of the first (last)
\* reference marker.
C16_ClampsOutsideReference ==
    (op = "impute_lanc" /\ ChromPre /\ IndivPre /\ OutsideReference /\ pc = "done") =>
        /\ status = "returned"
        /\ \A c \in DOMAIN dset.indiv : \A t \in DOMAIN dset.POS : \A h \in 1..2 :
              /\ dset.POS[t] < dset_ref.POS[1] =>
                    result.lanc[c][t][h] = dset_ref.lanc[SameIndiv(c)][1][h]
              /\ dset.POS[t] > dset_ref.POS[Len(dset_ref.POS)] =>
                    result.lanc[c][t][h] =
                        dset_ref.lanc[SameIndiv(c)][Len(dset_ref.POS)][h]

\* the reference markers nearest to target marker t in genomic position
NearestByPosition(t) ==
    {k \in DOMAIN dset_ref.POS :
        \A k2 \in DOMAIN dset_ref.POS :
            Abs(dset_ref.POS[k] - dset.POS[t]) <= Abs(dset_ref.POS[k2] - dset.POS[t])}

\* C17 (as claimed): for each target individual and haplotype, every target
\* marker gets the label of a reference marker nearest to it in genomic
\* position.
C17_NearestByCoordinate ==
    (op = "impute_lanc" /\ status = "returned") =>
        \A c \in DOMAIN dset.indiv : \A t \in DOMAIN dset.POS : \A h \in 1..2 :
            \E k \in NearestByPosition(t) :
                result.lanc[c][t][h] = dset_ref.lanc[SameIndiv(c)][k][h]

\* C18: when a target individual is not among the reference individuals,
\* impute_lanc fails with nothing imputed and nothing returned; when it
\* returns, every label of a target individual is a label of the reference
\* individual of the same identifier, on the same haplotype.
C18_TargetIndividualsKnown ==
    (op = "impute_lanc") =>
        /\ (\E c \in DOMAIN dset.indiv : dset.indiv[c] \notin Unique(dset_ref.indiv)) =>
              (pc # "loop" /\ imputed_lanc = <<>> /\ status # "returned")
        /\ status = "returned" =>
              \A c \in DOMAIN dset.indiv : \A t \in DOMAIN dset.POS : \A h \in 1..2 :
                  result.lanc[c][t][h] \in
                      {dset_ref.lanc[SameIndiv(c)][k][h] : k \in DOMAIN dset_ref.POS}

\* the call has failed on a target whose only fault is an unknown individual
C18_Witness ==
    /\ op = "impute_lanc" /\ pc = "done" /\ status = "raised"
    /\ ChromPre /\ RefBelow # {} /\ RefAbove # {}
    /\ dset.indiv = <<1, 3>>

\* C19: unless the markers of both data sets all lie on one and the same
\* chromosome, impute_lanc fails with nothing imputed and nothing returned.
C19_OneSharedChromosome ==
    (op = "impute_lanc"
        /\ ~\E ch \in Unique(dset.CHROM) :
               /\ \A k \in DOMAIN dset.CHROM : dset.CHROM[k] = ch
               /\ \A k \in DOMAIN dset_ref.CHROM : dset_ref.CHROM[k] = ch) =>
        (pc # "loop" /\ imputed_lanc = <<>> /\ status # "returned")

\* the call has failed on two data sets of one chromosome each, not the same
\* one, everything else being in order
C19_Witness ==
    /\ op = "impute_lanc" /\ pc = "done" /\ status = "raised"
    /\ IndivPre /\ RefBelow # {} /\ RefAbove # {}
    /\ Unique(dset.CHROM) = {1} /\ Unique(dset_ref.CHROM) = {2}

\* C20 (as claimed): for every segment table and marker list read_rfmix
\* accepts, each individual's break list is strictly increasing, lies within
\* (0, n_snp], ends with n_snp and is as long as the individual's value list.
C20_BreaksPartitionMarkers ==
    (op = "read_rfmix" /\ status = "returned") =>
        \A i \in DOMAIN result.breaks :
            LET b == result.breaks[i]
            IN  /\ \A k \in 1..(Len(b) - 1) : b[k] < b[k + 1]
                /\ \A k \in DOMAIN b : 0 < b[k] /\ b[k] <= Len(df_snp)
                /\ b # <<>> /\ b[Len(b)] = Len(df_snp)
                /\ Len(b) = Len(result.values[i])

\* the markers (numbered from 0) whose position does not exceed the end edge
\* of segment chunk_i
NotBeyond(chunk_i) == {m \in 0..(Len(df_snp) - 1) : df_snp[m + 1] <= Epos(chunk_i)}

\* C21 (as claimed): the marker index recorded for a segment's end edge is that
\* of the marker with the largest position not exceeding the edge, for every
\* segment with such a marker, an edge equal to a marker position and an inner
\* segment ending above every marker included.
C21_EdgeIndexNotBeyond ==
    (op = "read_rfmix" /\ pc # "start") =>
        \A k \in 1..n_seg :
            NotBeyond(k - 1) # {} =>
                /\ rfmix_break_list[k] \in NotBeyond(k - 1)
                /\ \A m \in NotBeyond(k - 1) : m <= rfmix_break_list[k]

\* the label the returned break and value lists give marker m (from 0) of
\* individual i: that of the first interval [start, stop) with m < stop
Decoded(i, m) ==
    LET b == result.breaks[i]
        j == CHOOSE k \in DOMAIN b : m < b[k] /\ \A l \in 1..(k - 1) : m >= b[l]
    IN  result.values[i][j]

\* the segments (from 1) a position belongs to: the first segment reaches down
\* from its end edge, the last one up from the previous edge, an inner one lies
\* between two edges; a position on an edge counts for both neighbours
SegmentsOf(p) ==
    {s \in 1..n_seg :
        /\ (s > 1 => df_rfmix.epos[s - 1] <= p)
        /\ (s < n_seg => p <= df_rfmix.epos[s])}

\* C22 (as claimed): in the output of read_rfmix every marker of every
\* individual carries the label of a segment its position belongs to, the
\* first segment's ahead of the table and the last one's beyond it.
C22_EveryMarkerLabelled ==
    (op = "read_rfmix" /\ status = "returned") =>
        \A i \in DOMAIN result.breaks :
            \A m \in 0..(Len(df_snp) - 1) :
                /\ \E k \in DOMAIN result.breaks[i] : m < result.breaks[i][k]
                /\ \E s \in SegmentsOf(df_snp[m + 1]) :
                        Decoded(i, m) = df_rfmix.lanc[s][i]

\* the haplotypes (indiv, ploidy) of marker m that carry ancestry label k
HapsLabelled(m, k) ==
    {x \in (1..Len(lanc[m])) \X (1..2) : lanc[m][x[1]][x[2]] = k}

\* the alleles of marker m added up over a set of haplotypes
RECURSIVE AlleleTotal(_, _)
AlleleTotal(m, S) ==
    IF S = {} THEN 0
    ELSE LET x == CHOOSE y \in S : TRUE
         IN  geno[m][x[1]][x[2]] + AlleleTotal(m, S \ {x})

\* C26: for every marker and ancestry k, af_per_anc returns the sum of the
\* alleles over the haplotypes labelled k divided by their number, and that
\* number; with no such haplotype the frequency is NaN and the count 0; the
\* chunk partition plays no part.
C26_FrequencyPerAncestry ==
    (op = "af_per_anc" /\ status = "returned") =>
        /\ Len(result[1]) = n_snp /\ Len(result[2]) = n_snp
        /\ \A m \in 1..n_snp : \A k \in 0..(n_anc - 1) :
              LET haps == HapsLabelled(m, k)
              IN  /\ result[2][m][k + 1] = Float(Cardinality(haps))
                  /\ result[1][m][k + 1] =
                        IF haps = {} THEN NaN
                        ELSE Rat(AlleleTotal(m, haps), Cardinality(haps))

\* several chunks; one ancestry absent at a marker, another one present on
\* some haplotypes only, with a frequency strictly between 0 and 1
C26_Witness ==
    /\ op = "af_per_anc" /\ status = "returned" /\ Len(chunks) >= 2
    /\ \E m \in 1..n_snp : \E k \in 1..n_anc :
          IsNaN(result[1][m][k]) /\ result[2][m][k] = Float(0)
    /\ \E m \in 1..n_snp : \E k \in 1..n_anc :
          /\ result[2][m][k] \notin {Float(0), Float(2 * NIndiv)}
          /\ result[1][m][k] \notin {NaN, Float(0), Float(1)}

C29_NoMissingAfterImputation ==
    (op = "geno_mult_mat" /\ impute_geno) =>
        /\ \A m \in DOMAIN gmm_chunk : \A i \in DOMAIN gmm_chunk[m] :
              ~IsNaN(gmm_chunk[m][i])
        /\ status = "returned" =>
              \A r \in DOMAIN result[1] : \A c \in DOMAIN result[1][r] :
                  ~IsNaN(result[1][r][c])

\* a step of geno_mult_mat or admix_grm: not one of a call that has raised,
\* and a step that raises ends the call empty-handed
AbortsWhereItFails ==
    op \in {"geno_mult_mat", "admix_grm"} =>
        /\ status # "raised"
        /\ status' = "raised" => (pc' = "done" /\ result' = <<>>)

\* C23: when a chunk cannot be read during geno_mult_mat or admix_grm, the
\* call ends at that chunk: a call that has raised takes no further step,
\* and it has returned nothing, the partly filled accumulators included.
C23_FailureAborts == [][AbortsWhereItFails]_vars

\* admix_grm stopped by a read that failed after a chunk had been added to
\* the matrices and with chunks still to come
C23_Witness ==
    /\ op = "admix_grm" /\ status = "raised" /\ pc = "done"
    /\ visited # <<>> /\ MoreChunks
    /\ \E i \in DOMAIN G1 : \E j \in DOMAIN G1[i] : G1[i][j] # Float(0)
    /\ result = <<>>

\* a step of one of the three reducers that leaves the four arrays alone
InputsKept ==
    op \in ChunkLoopOps =>
        /\ geno' = geno /\ lanc' = lanc
        /\ mat' = mat /\ snp_prior_var' = snp_prior_var

\* C24 (as claimed): geno_mult_mat, admix_grm and af_per_anc leave geno, lanc,
\* mat and snp_prior_var as the caller passed them, at every step of the
\* call, whether it succeeds or fails.
C24_InputsUntouched == [][InputsKept]_vars

\* a step of _block_test that leaves its arguments and the default mapping
\* alone
ArgumentsKept ==
    op = "block_test" =>
        /\ logistic_kwargs' = logistic_kwargs
        /\ default_kwargs' = default_kwargs
        /\ var' = var /\ cov' = cov /\ pheno' = pheno

\* C25 (as claimed): _block_test leaves its arguments and the default mapping
\* of logistic_kwargs as they were, so that nothing is carried from one call
\* to the next.
C25_NoStateRetained == [][ArgumentsKept]_vars

\* the fits of one kind made for marker i (from 0)
FitsOf(i, kind) == {k \in DOMAIN fits : fits[k].marker = i /\ fits[k].model = kind}

ExistingPathsKept ==
    op = "lanc_impute" =>
        /\ \A p \in DOMAIN fs : p \in DOMAIN fs' /\ fs'[p] = fs[p]
        /\ status' = "raised" => fs' = fs
        /\ LancPath(pfile) \in DOMAIN fs =>
              (opened' = <<>> /\ fs' = fs /\ status' # "returned")

\* C30: lanc_impute never writes to a path that exists: with <pfile>.lanc
\* present it fails before reading anything; with the output path present it
\* fails without writing; a failing call leaves the file system as it was.
C30_NoOverwrite == [][ExistingPathsKept]_vars

\* a call that read both data sets and the reference's local ancestry, found
\* the output path taken and stopped
C30_Witness ==
    /\ op = "lanc_impute" /\ pc = "done" /\ status = "raised"
    /\ out = <<"out">> /\ out \in DOMAIN fs
    /\ LancPath(pfile) \notin DOMAIN fs
    /\ opened = <<pfile, LancPath(ref_pfile), ref_pfile, LancPath(ref_pfile)>>
    /\ \A p \in DOMAIN fs : fs[p] = "stored"
=============================================================================
